---- MODULE Spec2Model ----
(***************************************************************************)
(* Verification model of BotMind's Session Resilience & Admission Control. *)
(*                                                                         *)
(*   SpecGuard    the Admission Guard (BotGuard, services/bot-guard.js)    *)
(*   SpecBurst    the guard with one sender writing in a burst             *)
(*   SpecContent  the guard with one sender failing the content checks     *)
(*   SpecWarned   the guard with one sender at the minute limit            *)
(*   SpecSession  the Session Manager (WhatsAppClient,                     *)
(*                core/whatsapp-client.js)                                 *)
(*   SpecState    the Bot State Store (BotStateManager,                    *)
(*                core/state-manager.js)                                   *)
(*   SpecApp      the application layer (Bot, bot.js, and MessageHandler,  *)
(*                handlers/message-handler.js)                             *)
(*                                                                         *)
(* Times are milliseconds, as in the code.  Message texts are sequences of *)
(* one-character strings so that trim(), toLowerCase() and the content     *)
(* patterns are computed and not assumed.                                  *)
(***************************************************************************)
EXTENDS Integers, Sequences, FiniteSets, TLC

VARIABLES
    \* ---- BotGuard ----
    now,                \* Date.now()
    rateLimitEnabled,   \* this.rateLimitEnabled
    userActivity,       \* this.userActivity    : Map userId -> activity
    blockedUsers,       \* this.blockedUsers    : Map userId -> block entry
    suspiciousPatterns, \* this.suspiciousPatterns : Map userId -> patterns
    guardUp,            \* Bot.botGuard is set (FALSE after Bot.cleanup)
    last,               \* what the last guard operation did and returned
    winAdmits,          \* history: admissions in the sender's current minute window
    prevAdmitted,       \* history: the sender's previous message was admitted
    minuteRejects,      \* history: minute-limit rejections in the tracking period
    mustBlockUntil,     \* history: end of the 10 minutes after the third rejection
    sentLog,            \* history: every (text, time) a sender has submitted
    ops,                \* history: number of guard operations so far
    ticks,              \* history: number of clock advances so far
    \* ---- WhatsAppClient ----
    sock,               \* this.sock: 0 for null, else a transport handle
    isConnected,        \* this.isConnected
    isConnecting,       \* this.isConnecting
    qrRetries,          \* this.qrRetries
    reconnectAttempts,  \* this.reconnectAttempts
    liveSocks,          \* handles made by makeWASocket and not yet closed
    openSocks,          \* live handles that have reported connection 'open'
    connects,           \* connect() calls suspended before makeWASocket
    timers,             \* pending setTimeout callbacks of attemptReconnection
    slast,              \* what the last session step did
    delays,             \* history: delays scheduled since the last open event
    loggedOut,          \* history: a logged-out close was handled
    handlesMade,        \* history: number of handles created so far
    calls,              \* history: number of connect()/disconnect() calls by the application
    credsFailed,        \* history: live handles whose credential save has failed
    \* ---- BotStateManager ----
    state,              \* this.state
    isInitialized,      \* this.isInitialized
    saveTimeout,        \* this.saveTimeout: 0 for null, else a timer id
    autoSaveInterval,   \* this.autoSaveInterval is set
    hasPool,            \* DATABASE_URL is configured (pool is not null)
    dbRow,              \* primary store: the state column of row 1 of bot_state
    fileData,           \* fallback store: the content of the state file
    tmpData,            \* the content of the state file's .tmp sibling
    debounceTimers,     \* pending setTimeout callbacks of saveStateDebounced
    setCalls,           \* setState() calls suspended in _saveStateToDB
    saves,              \* saveState() calls in flight
    mclock,             \* the time in milliseconds
    mlast,              \* what the last state-manager step did
    callLog,            \* history: the setState calls so far
    saveCounts,         \* history: saveState() calls per origin so far
    fileIntact,         \* history: the state file is as saveState() renamed it
    budget,             \* history: external events used up
    \* ---- Bot and MessageHandler ----
    messageHandlers,    \* the listener Bot registers with whatsappClient.onMessage
    totalMessages,      \* this.state.totalMessages of the state manager
    stopTimers,         \* pending setTimeout callbacks of MessageHandler.toggleBot
    alast               \* what the last application step did

guardVars == <<now, rateLimitEnabled, userActivity, blockedUsers,
               suspiciousPatterns, guardUp, last, winAdmits, prevAdmitted,
               minuteRejects,
               mustBlockUntil, sentLog, ops, ticks>>

sessVars == <<sock, isConnected, isConnecting, qrRetries, reconnectAttempts,
              liveSocks, openSocks, connects, timers, slast, delays,
              loggedOut, handlesMade, calls, credsFailed>>

stateVars == <<state, isInitialized, saveTimeout, autoSaveInterval, hasPool,
               dbRow, fileData, tmpData, debounceTimers, setCalls, saves,
               mclock, mlast, callLog, saveCounts, fileIntact, budget>>

appVars == <<messageHandlers, totalMessages, stopTimers, alast>>

vars == <<guardVars, sessVars, stateVars, appVars>>

----------------------------------------------------------------------------
\* Bounds of the model

\* number of guard operations explored
MaxOps == 5
\* number of clock advances explored
MaxTicks == 2
\* number of messages of the owner explored
MaxOwnerMsgs == 2
\* config.state.default.rateLimit.maxMessagesPerMinute (injected
\* configuration; the shipped default is 10)
maxMessagesPerMinute == 1
\* config.state.default.rateLimit.maxMessagesPerHour (injected
\* configuration; the shipped default is 100)
maxMessagesPerHour == 2

----------------------------------------------------------------------------
\* Program constants (milliseconds and thresholds written in the code)

MinuteMs == 60000
HourMs == 3600000
RepeatWindowMs == 300000
RapidGapMs == 2000
DecayGapMs == 10000
WarningLimit == 3
RepeatLimit == 3
SpamCountLimit == 5
ViolationLimit == 5
LastMessagesCap == 10
MinSpamLength == 10
MaxMessageLength == 2000
RateBlockMs == 600000
HourBlockMs == 3600000
RepeatBlockMs == 1800000
RapidBlockMs == 900000
ViolationBlockMs == 86400000
DayMs == 86400000

----------------------------------------------------------------------------
\* Inputs

\* contact.id._serialized of the senders
OwnerUser == "91@s.whatsapp.net"
OtherUser == "72@s.whatsapp.net"
Users == {OwnerUser, OtherUser}

\* userId.split('@')[0]
LocalPart(userId) ==
    IF userId = OwnerUser THEN <<"9", "1">> ELSE <<"7", "2">>

\* config.bot.owner.number as the operator typed it
OwnerNumber == <<"+", "9", "1">>

TextHi == <<" ", "h", "i">>
TextSpam == [i \in 1..11 |-> IF i = 1 THEN "X" ELSE "x"]
Bodies == {TextHi, TextSpam}

\* the bodies each sender submits (the owner path never reads the text)
BodiesOf(userId) == IF userId = OwnerUser THEN {TextHi} ELSE Bodies

\* Date.now() when the guard is constructed
StartTime == 100000000

\* how far the clock may advance between two operations
Deltas == {61000, 600001}

----------------------------------------------------------------------------
\* Helpers on maps and sequences

\* a set that drops the entries of the other keys
Put_DropsOthers(map, key, value) == (key :> value)

\* map.set(key, value)
Put(map, key, value) == (key :> value) @@ map

Remove(map, key) == [k \in (DOMAIN map) \ {key} |-> map[k]]

EmptyMap == [k \in {} |-> 0]

MaxOf(a, b) == IF a >= b THEN a ELSE b

\* Array.prototype.slice(-n)
LastN(s, n) ==
    IF Len(s) <= n THEN s ELSE SubSeq(s, Len(s) - n + 1, Len(s))

IsSpace(c) == c = " "

\* String.prototype.trim()
RECURSIVE TrimLeft(_)
TrimLeft(s) ==
    IF s = <<>> THEN s
    ELSE IF IsSpace(Head(s)) THEN TrimLeft(Tail(s)) ELSE s

RECURSIVE TrimRight(_)
TrimRight(s) ==
    IF s = <<>> THEN s
    ELSE IF IsSpace(s[Len(s)]) THEN TrimRight(SubSeq(s, 1, Len(s) - 1)) ELSE s

Trim(s) == TrimRight(TrimLeft(s))

IsDigit(c) == c \in {"0", "1", "2", "3", "4", "5", "6", "7", "8", "9"}

\* String.prototype.replace(/\D/g, '')
StripNonDigits(s) == SelectSeq(s, IsDigit)

LowerChar(c) ==
    IF c = "X" THEN "x" ELSE IF c = "H" THEN "h" ELSE IF c = "S" THEN "s" ELSE c

\* String.prototype.toLowerCase()
ToLowerCase(s) == [i \in 1..Len(s) |-> LowerChar(s[i])]

----------------------------------------------------------------------------
\* BotGuard: decisions

\* a check that lets the message continue: { allowed: true }
Pass ==
    [allowed |-> TRUE, reason |-> "none", shouldRespond |-> FALSE,
     response |-> "none"]

Reject(reason, shouldRespond, response) ==
    [allowed |-> FALSE, reason |-> reason, shouldRespond |-> shouldRespond,
     response |-> response]

\* the default object of checkRateLimit / updateUserActivity
NewActivity(timestamp) ==
    [minuteCount |-> 0, hourCount |-> 0, lastMessageTime |-> 0,
     warningCount |-> 0, minuteReset |-> timestamp + MinuteMs,
     hourReset |-> timestamp + HourMs]

\* the default object of checkSuspiciousPatterns / trackSuspiciousActivity
NewPatterns ==
    [spamCount |-> 0, repeatCount |-> 0, lastMessages |-> <<>>,
     lastSpamTime |-> 0, violations |-> <<>>]

isOwner_RawNumber(userId) ==
    /\ OwnerNumber # <<>>
    /\ OwnerNumber = StripNonDigits(LocalPart(userId))

isOwner(userId) ==
    LET cleanOwnerNumber == StripNonDigits(OwnerNumber)
        cleanUserNumber == StripNonDigits(LocalPart(userId))
    IN  cleanOwnerNumber # <<>> /\ cleanOwnerNumber = cleanUserNumber

blockUser(bu, userId, durationMs, reason, t) ==
    Put(bu, userId,
        [blockedUntil |-> t + durationMs, reason |-> reason, blockedAt |-> t])

BlockExpired_Never(blockInfo, t) == FALSE

\* Date.now() > blockInfo.blockedUntil
BlockExpired(blockInfo, t) == t > blockInfo.blockedUntil

\* checkBlocked that answers a blocked sender
checkBlocked_Answers(bu, userId, t) ==
    IF userId \notin DOMAIN bu
    THEN [res |-> Pass, bu |-> bu]
    ELSE IF BlockExpired(bu[userId], t)
    THEN [res |-> Pass, bu |-> Remove(bu, userId)]
    ELSE [res |-> Reject("user_blocked", TRUE, "blocked"), bu |-> bu]

\* checkBlocked(userId): the result and the block entries after it
checkBlocked(bu, userId, t) ==
    IF userId \notin DOMAIN bu
    THEN [res |-> Pass, bu |-> bu]
    ELSE IF BlockExpired(bu[userId], t)
    THEN [res |-> Pass, bu |-> Remove(bu, userId)]
    ELSE [res |-> Reject("user_blocked", FALSE, "none"), bu |-> bu]

MinuteLimitReached_Strict(activity) ==
    activity.minuteCount > maxMessagesPerMinute

\* activity.minuteCount >= this.maxMessagesPerMinute
MinuteLimitReached(activity) ==
    activity.minuteCount >= maxMessagesPerMinute

\* the hour limit with > in place of >=
HourLimitReached_Strict(activity) ==
    activity.hourCount > maxMessagesPerHour

\* activity.hourCount >= this.maxMessagesPerHour
HourLimitReached(activity) ==
    activity.hourCount >= maxMessagesPerHour

WarningsExhausted_Late(activity) == activity.warningCount >= WarningLimit + 1

\* activity.warningCount >= 3
WarningsExhausted(activity) == activity.warningCount >= WarningLimit

\* checkRateLimit blocking at every minute-limit rejection
checkRateLimit_NoGrace(ua, bu, userId, timestamp) ==
    LET stored == userId \in DOMAIN ua
        a0 == IF stored THEN ua[userId] ELSE NewActivity(timestamp)
        a1 == IF timestamp > a0.minuteReset
              THEN [a0 EXCEPT !.minuteCount = 0,
                              !.minuteReset = timestamp + MinuteMs]
              ELSE a0
        a2 == IF timestamp > a1.hourReset
              THEN [a1 EXCEPT !.hourCount = 0,
                              !.hourReset = timestamp + HourMs]
              ELSE a1
        \* a stored record is mutated in place; the default object is dropped
        uaKept == IF stored THEN Put(ua, userId, a2) ELSE ua
    IN  IF MinuteLimitReached(a2)
        THEN LET a3 == [a2 EXCEPT !.warningCount = @ + 1]
             IN  [res |-> Reject("rate_limit_minute", TRUE, "cooldown"),
                  ua |-> Put(ua, userId, a3),
                  bu |-> blockUser(bu, userId, RateBlockMs,
                             "repeated_rate_limit_violations", timestamp)]
        ELSE IF HourLimitReached(a2)
        THEN [res |-> Reject("rate_limit_hour", TRUE, "hourly_limit"),
              ua |-> uaKept,
              bu |-> blockUser(bu, userId, HourBlockMs,
                               "hourly_rate_limit_exceeded", timestamp)]
        ELSE [res |-> Pass, ua |-> uaKept, bu |-> bu]

\* checkRateLimit(userId, timestamp): the result and the maps after it
checkRateLimit(ua, bu, userId, timestamp) ==
    LET stored == userId \in DOMAIN ua
        a0 == IF stored THEN ua[userId] ELSE NewActivity(timestamp)
        a1 == IF timestamp > a0.minuteReset
              THEN [a0 EXCEPT !.minuteCount = 0,
                              !.minuteReset = timestamp + MinuteMs]
              ELSE a0
        a2 == IF timestamp > a1.hourReset
              THEN [a1 EXCEPT !.hourCount = 0,
                              !.hourReset = timestamp + HourMs]
              ELSE a1
        \* a stored record is mutated in place; the default object is dropped
        uaKept == IF stored THEN Put(ua, userId, a2) ELSE ua
    IN  IF MinuteLimitReached(a2)
        THEN LET a3 == [a2 EXCEPT !.warningCount = @ + 1]
             IN  [res |-> Reject("rate_limit_minute", TRUE, "cooldown"),
                  ua |-> Put(ua, userId, a3),
                  bu |-> IF WarningsExhausted(a3)
                         THEN blockUser(bu, userId, RateBlockMs,
                                  "repeated_rate_limit_violations", timestamp)
                         ELSE bu]
        ELSE IF HourLimitReached(a2)
        THEN [res |-> Reject("rate_limit_hour", TRUE, "hourly_limit"),
              ua |-> uaKept,
              bu |-> blockUser(bu, userId, HourBlockMs,
                               "hourly_rate_limit_exceeded", timestamp)]
        ELSE [res |-> Pass, ua |-> uaKept, bu |-> bu]

\* patterns.lastMessages of the last 5 minutes with msg.text === messageText
IdenticalCount(lastMessages, messageText, timestamp) ==
    LET recentMessages ==
            SelectSeq(lastMessages,
                      LAMBDA m : timestamp - m.timestamp < RepeatWindowMs)
    IN  Len(SelectSeq(recentMessages, LAMBDA m : m.text = messageText))

IsRepeat_Fourth(identicalCount) == identicalCount >= 3

\* identicalCount >= 2
IsRepeat(identicalCount) == identicalCount >= 2

\* checkSuspiciousPatterns blocking at the first repeated message
checkSuspiciousPatterns_BlocksAtOnce(sp, bu, userId, messageText, timestamp) ==
    LET stored == userId \in DOMAIN sp
        p0 == IF stored THEN sp[userId] ELSE NewPatterns
        identicalCount == IdenticalCount(p0.lastMessages, messageText, timestamp)
    IN  IF IsRepeat(identicalCount)
        THEN LET p1 == [p0 EXCEPT !.repeatCount = @ + 1]
                 spKept == IF stored THEN Put(sp, userId, p1) ELSE sp
             IN  IF p1.repeatCount >= 1
                 THEN [res |-> Reject("repeated_messages", TRUE, "restricted"),
                       sp |-> spKept,
                       bu |-> blockUser(bu, userId, RepeatBlockMs,
                                        "repeated_identical_messages", timestamp)]
                 ELSE [res |-> Reject("repeated_messages", TRUE, "vary"),
                       sp |-> spKept, bu |-> bu]
        ELSE LET hasLast == Len(p0.lastMessages) > 0
                 timeDiff == IF hasLast
                             THEN timestamp - p0.lastMessages[Len(p0.lastMessages)].timestamp
                             ELSE 0
                 rapid == hasLast /\ timeDiff < RapidGapMs
                 p1 == IF rapid THEN [p0 EXCEPT !.spamCount = @ + 1]
                       ELSE IF hasLast /\ timeDiff > DecayGapMs
                       THEN [p0 EXCEPT !.spamCount = MaxOf(0, @ - 1)]
                       ELSE p0
             IN  IF rapid /\ p1.spamCount >= SpamCountLimit
                 THEN [res |-> Reject("rapid_messaging", TRUE, "slow_down"),
                       sp |-> Put(sp, userId, p1),
                       bu |-> blockUser(bu, userId, RapidBlockMs,
                                        "rapid_fire_messaging", timestamp)]
                 ELSE LET pushed == Append(p1.lastMessages,
                                        [text |-> messageText, timestamp |-> timestamp])
                          p2 == [p1 EXCEPT !.lastMessages =
                                    IF Len(pushed) > LastMessagesCap
                                    THEN LastN(pushed, LastMessagesCap)
                                    ELSE pushed]
                      IN  [res |-> Pass, sp |-> Put(sp, userId, p2), bu |-> bu]

\* checkSuspiciousPatterns(userId, messageText, timestamp): the result and
\* the maps after it
checkSuspiciousPatterns(sp, bu, userId, messageText, timestamp) ==
    LET stored == userId \in DOMAIN sp
        p0 == IF stored THEN sp[userId] ELSE NewPatterns
        identicalCount == IdenticalCount(p0.lastMessages, messageText, timestamp)
    IN  IF IsRepeat(identicalCount)
        THEN LET p1 == [p0 EXCEPT !.repeatCount = @ + 1]
                 spKept == IF stored THEN Put(sp, userId, p1) ELSE sp
             IN  IF p1.repeatCount >= RepeatLimit
                 THEN [res |-> Reject("repeated_messages", TRUE, "restricted"),
                       sp |-> spKept,
                       bu |-> blockUser(bu, userId, RepeatBlockMs,
                                        "repeated_identical_messages", timestamp)]
                 ELSE [res |-> Reject("repeated_messages", TRUE, "vary"),
                       sp |-> spKept, bu |-> bu]
        ELSE LET hasLast == Len(p0.lastMessages) > 0
                 timeDiff == IF hasLast
                             THEN timestamp - p0.lastMessages[Len(p0.lastMessages)].timestamp
                             ELSE 0
                 rapid == hasLast /\ timeDiff < RapidGapMs
                 p1 == IF rapid THEN [p0 EXCEPT !.spamCount = @ + 1]
                       ELSE IF hasLast /\ timeDiff > DecayGapMs
                       THEN [p0 EXCEPT !.spamCount = MaxOf(0, @ - 1)]
                       ELSE p0
             IN  IF rapid /\ p1.spamCount >= SpamCountLimit
                 THEN [res |-> Reject("rapid_messaging", TRUE, "slow_down"),
                       sp |-> Put(sp, userId, p1),
                       bu |-> blockUser(bu, userId, RapidBlockMs,
                                        "rapid_fire_messaging", timestamp)]
                 ELSE LET pushed == Append(p1.lastMessages,
                                        [text |-> messageText, timestamp |-> timestamp])
                          p2 == [p1 EXCEPT !.lastMessages =
                                    IF Len(pushed) > LastMessagesCap
                                    THEN LastN(pushed, LastMessagesCap)
                                    ELSE pushed]
                      IN  [res |-> Pass, sp |-> Put(sp, userId, p2), bu |-> bu]

\* /(.)\1{10,}/ : one character 11 or more times in a row
RepeatedCharacters(text) ==
    \E n \in {Len(text)} : \E i \in 1..n :
        /\ i + 10 <= n
        /\ \A j \in 1..10 : text[i + j] = text[i]

\* /(.{1,3})\1{5,}/ : a group of 1 to 3 characters 6 or more times in a row
RepeatedSequences(text) ==
    \E n \in {Len(text)} : \E k \in 1..3 : \E i \in 1..n :
        /\ i + 6 * k - 1 <= n
        /\ \A j \in 0..(5 * k - 1) : text[i + j + k] = text[i + j]

IsSpecialChar(c) == c \in {"!", "@", "#", "$", "%", "^", "&", "*"}

\* /[!@#$%^&*]{5,}/
ExcessiveSpecials(text) ==
    \E n \in {Len(text)} : \E i \in 1..n :
        /\ i + 4 <= n
        /\ \A j \in 0..4 : IsSpecialChar(text[i + j])

\* the patterns of spamPatterns that the alphabet of Bodies can match
MatchesSpamPattern(text) ==
    \/ RepeatedCharacters(text)
    \/ RepeatedSequences(text)
    \/ ExcessiveSpecials(text)

checkSpamContent(messageText, isGroup) ==
    IF messageText = <<>> \/ Len(messageText) < MinSpamLength
    THEN Pass
    \* const text = messageText.toLowerCase()
    ELSE IF \E text \in {ToLowerCase(messageText) \o <<>>} :
                MatchesSpamPattern(text)
    THEN Reject("spam_content", ~isGroup, "spam")
    ELSE IF Len(messageText) > MaxMessageLength
    THEN Reject("message_too_long", TRUE, "too_long")
    ELSE Pass

\* updateUserActivity clearing the warnings of an admitted sender
updateUserActivity_Forgives(ua, userId, timestamp) ==
    LET a0 == IF userId \in DOMAIN ua THEN ua[userId] ELSE NewActivity(timestamp)
    IN  Put(ua, userId,
            [a0 EXCEPT !.minuteCount = @ + 1, !.hourCount = @ + 1,
                       !.lastMessageTime = timestamp, !.warningCount = 0])

\* updateUserActivity(userId, messageText, timestamp)
updateUserActivity(ua, userId, timestamp) ==
    LET a0 == IF userId \in DOMAIN ua THEN ua[userId] ELSE NewActivity(timestamp)
    IN  Put(ua, userId,
            [a0 EXCEPT !.minuteCount = @ + 1, !.hourCount = @ + 1,
                       !.lastMessageTime = timestamp])

\* trackSuspiciousActivity without the removal of old violations
trackSuspiciousActivity_KeepsOld(sp, bu, userId, reason, t) ==
    LET p0 == IF userId \in DOMAIN sp THEN sp[userId] ELSE NewPatterns
        pushed == Append(p0.violations, [reason |-> reason, timestamp |-> t])
        kept == pushed
        p1 == [p0 EXCEPT !.violations = kept]
    IN  [sp |-> Put(sp, userId, p1),
         bu |-> IF Len(kept) >= ViolationLimit
                THEN blockUser(bu, userId, ViolationBlockMs,
                               "repeated_violations", t)
                ELSE bu]

\* trackSuspiciousActivity(userId, reason): the maps after it
trackSuspiciousActivity(sp, bu, userId, reason, t) ==
    LET p0 == IF userId \in DOMAIN sp THEN sp[userId] ELSE NewPatterns
        pushed == Append(p0.violations, [reason |-> reason, timestamp |-> t])
        kept == SelectSeq(pushed, LAMBDA v : t - v.timestamp < DayMs)
        p1 == [p0 EXCEPT !.violations = kept]
    IN  [sp |-> Put(sp, userId, p1),
         bu |-> IF Len(kept) >= ViolationLimit
                THEN blockUser(bu, userId, ViolationBlockMs,
                               "repeated_violations", t)
                ELSE bu]

\* checkMessage with the content check moved up, right after the block check
checkMessage_ContentFirst(ua, bu, sp, userId, body, isGroup, timestamp) ==
    LET messageText == Trim(body)
    IN  IF isOwner(userId)
        THEN [res |-> [allowed |-> TRUE, reason |-> "owner_bypass",
                       shouldRespond |-> FALSE, response |-> "none"],
              ua |-> updateUserActivity(ua, userId, timestamp),
              bu |-> bu, sp |-> sp]
        ELSE
        LET blockCheck == checkBlocked(bu, userId, timestamp)
            spamCheck == checkSpamContent(messageText, isGroup)
        IN  IF ~blockCheck.res.allowed
            THEN [res |-> blockCheck.res, ua |-> ua, bu |-> blockCheck.bu,
                  sp |-> sp]
            ELSE IF ~spamCheck.allowed
            THEN LET tracked == trackSuspiciousActivity(sp, blockCheck.bu,
                                    userId, "spam_content", timestamp)
                 IN  [res |-> spamCheck, ua |-> ua, bu |-> tracked.bu,
                      sp |-> tracked.sp]
            ELSE
            LET rateLimitCheck ==
                    IF rateLimitEnabled
                    THEN checkRateLimit(ua, blockCheck.bu, userId, timestamp)
                    ELSE [res |-> Pass, ua |-> ua, bu |-> blockCheck.bu]
            IN  IF ~rateLimitCheck.res.allowed
                THEN [res |-> rateLimitCheck.res, ua |-> rateLimitCheck.ua,
                      bu |-> rateLimitCheck.bu, sp |-> sp]
                ELSE
                LET patternCheck ==
                        checkSuspiciousPatterns(sp, rateLimitCheck.bu, userId,
                                                messageText, timestamp)
                IN  IF ~patternCheck.res.allowed
                    THEN [res |-> patternCheck.res, ua |-> rateLimitCheck.ua,
                          bu |-> patternCheck.bu, sp |-> patternCheck.sp]
                    ELSE [res |-> Pass,
                          ua |-> updateUserActivity(rateLimitCheck.ua,
                                                    userId, timestamp),
                          bu |-> patternCheck.bu, sp |-> patternCheck.sp]

\* the body of checkMessage: the decision and the three maps after it
checkMessage(ua, bu, sp, userId, body, isGroup, timestamp) ==
    LET messageText == Trim(body)
    IN  IF isOwner(userId)
        THEN [res |-> [allowed |-> TRUE, reason |-> "owner_bypass",
                       shouldRespond |-> FALSE, response |-> "none"],
              ua |-> updateUserActivity(ua, userId, timestamp),
              bu |-> bu, sp |-> sp]
        ELSE
        LET blockCheck == checkBlocked(bu, userId, timestamp)
        IN  IF ~blockCheck.res.allowed
            THEN [res |-> blockCheck.res, ua |-> ua, bu |-> blockCheck.bu,
                  sp |-> sp]
            ELSE
            LET rateLimitCheck ==
                    IF rateLimitEnabled
                    THEN checkRateLimit(ua, blockCheck.bu, userId, timestamp)
                    ELSE [res |-> Pass, ua |-> ua, bu |-> blockCheck.bu]
            IN  IF ~rateLimitCheck.res.allowed
                THEN [res |-> rateLimitCheck.res, ua |-> rateLimitCheck.ua,
                      bu |-> rateLimitCheck.bu, sp |-> sp]
                ELSE
                LET patternCheck ==
                        checkSuspiciousPatterns(sp, rateLimitCheck.bu, userId,
                                                messageText, timestamp)
                IN  IF ~patternCheck.res.allowed
                    THEN [res |-> patternCheck.res, ua |-> rateLimitCheck.ua,
                          bu |-> patternCheck.bu, sp |-> patternCheck.sp]
                    ELSE
                    LET spamCheck == checkSpamContent(messageText, isGroup)
                    IN  IF ~spamCheck.allowed
                        THEN LET tracked ==
                                     trackSuspiciousActivity(patternCheck.sp,
                                         patternCheck.bu, userId,
                                         "spam_content", timestamp)
                             IN  [res |-> spamCheck, ua |-> rateLimitCheck.ua,
                                  bu |-> tracked.bu, sp |-> tracked.sp]
                        ELSE [res |-> Pass,
                              ua |-> updateUserActivity(rateLimitCheck.ua,
                                                        userId, timestamp),
                              bu |-> patternCheck.bu, sp |-> patternCheck.sp]

----------------------------------------------------------------------------
\* BotGuard: history kept for the properties (never read by the operations)

\* admissions of the sender in the minute window that contains time t
WinBefore(userId, t) ==
    IF userId \in DOMAIN userActivity /\ t <= userActivity[userId].minuteReset
    THEN winAdmits[userId]
    ELSE 0

\* earlier submissions of exactly this body by the sender in the last 5 minutes
EarlierSame(userId, body, t) ==
    Len(SelectSeq(sentLog[userId],
                  LAMBDA m : m.text = body /\ t - m.timestamp < RepeatWindowMs))

NoLast ==
    [op |-> "init", user |-> "none", allowed |-> TRUE, reason |-> "none",
     shouldRespond |-> FALSE, response |-> "none", t |-> 0, winBefore |-> 0,
     followsAdmit |-> FALSE,
     blockDue |-> FALSE, preExpired |-> FALSE, earlierSame |-> 0,
     preIdentical |-> 0, isGroup |-> FALSE, returned |-> FALSE,
     threw |-> FALSE]

----------------------------------------------------------------------------
\* BotGuard: operations

InitGuard ==
    /\ now = StartTime
    /\ rateLimitEnabled \in BOOLEAN
    /\ userActivity = EmptyMap
    /\ blockedUsers = EmptyMap
    /\ suspiciousPatterns = EmptyMap
    /\ guardUp = TRUE
    /\ last = NoLast
    /\ winAdmits = [u \in Users |-> 0]
    /\ prevAdmitted = [u \in Users |-> FALSE]
    /\ minuteRejects = [u \in Users |-> 0]
    /\ mustBlockUntil = [u \in Users |-> -1]
    /\ sentLog = [u \in Users |-> <<>>]
    /\ ops = 0
    /\ ticks = 0

\* time passes between two operations
Tick(delta) ==
    /\ guardUp
    /\ ops < MaxOps
    /\ ticks < MaxTicks
    /\ now' = now + delta
    /\ ticks' = ticks + 1
    /\ UNCHANGED <<rateLimitEnabled, userActivity, blockedUsers,
                   suspiciousPatterns, guardUp, last, winAdmits, prevAdmitted,
                   minuteRejects, mustBlockUntil, sentLog, ops>>
    /\ UNCHANGED <<sessVars, stateVars, appVars>>

\* one call of checkMessage at time t: the guard's maps after it and the
\* record of what was asked and answered
Submit(userId, body, isGroup, t) ==
    \E out \in {checkMessage(userActivity, blockedUsers, suspiciousPatterns,
                            userId, body, isGroup, t)} :
    LET winBefore == WinBefore(userId, t)
        minuteRejected == out.res.reason = "rate_limit_minute"
        rejects == minuteRejects[userId] + (IF minuteRejected THEN 1 ELSE 0)
        storedPatterns == userId \in DOMAIN suspiciousPatterns
    IN  /\ userActivity' = out.ua
        /\ blockedUsers' = out.bu
        /\ suspiciousPatterns' = out.sp
        /\ winAdmits' = [winAdmits EXCEPT ![userId] =
                            winBefore + (IF out.res.allowed THEN 1 ELSE 0)]
        /\ prevAdmitted' = [prevAdmitted EXCEPT ![userId] = out.res.allowed]
        /\ minuteRejects' = [minuteRejects EXCEPT ![userId] = rejects]
        /\ mustBlockUntil' =
               IF minuteRejected /\ rejects = WarningLimit
               THEN [mustBlockUntil EXCEPT ![userId] = t + RateBlockMs]
               ELSE mustBlockUntil
        /\ sentLog' = [sentLog EXCEPT ![userId] =
                          Append(@, [text |-> body, timestamp |-> t])]
        /\ last' = [op |-> "checkMessage", user |-> userId,
                    allowed |-> out.res.allowed, reason |-> out.res.reason,
                    shouldRespond |-> out.res.shouldRespond,
                    response |-> out.res.response, t |-> t,
                    winBefore |-> winBefore,
                    followsAdmit |-> prevAdmitted[userId],
                    blockDue |-> t <= mustBlockUntil[userId],
                    preExpired |-> /\ userId \in DOMAIN blockedUsers
                                   /\ t > blockedUsers[userId].blockedUntil,
                    earlierSame |-> EarlierSame(userId, body, t),
                    preIdentical |->
                        IF storedPatterns
                        THEN IdenticalCount(
                                 suspiciousPatterns[userId].lastMessages,
                                 Trim(body), t)
                        ELSE 0,
                    isGroup |-> isGroup,
                    returned |-> FALSE, threw |-> FALSE]

\* await botGuard.checkMessage(message, chat, contact)
CheckMessage(userId, body, isGroup) ==
    /\ guardUp
    /\ ops < MaxOps
    /\ (userId = OwnerUser /\ userId \in DOMAIN userActivity)
           => userActivity[userId].hourCount < MaxOwnerMsgs
    /\ Submit(userId, body, isGroup, now)
    /\ ops' = ops + 1
    /\ UNCHANGED <<now, rateLimitEnabled, guardUp, ticks>>
    /\ UNCHANGED <<sessVars, stateVars, appVars>>

guardError_FailClosed ==
    [allowed |-> FALSE, reason |-> "guard_error", shouldRespond |-> FALSE,
     response |-> "none"]

\* the object checkMessage returns from its catch block
guardError ==
    [allowed |-> TRUE, reason |-> "guard_error", shouldRespond |-> FALSE,
     response |-> "none"]

\* botGuard.checkMessage(message, chat, contact) with a contact that has no
\* id: contact.id._serialized throws inside the try block, before any check
CheckMessageThrows ==
    /\ guardUp
    /\ ops < MaxOps
    /\ last' = [NoLast EXCEPT !.op = "checkMessage",
                              !.allowed = guardError.allowed,
                              !.reason = guardError.reason,
                              !.shouldRespond = guardError.shouldRespond,
                              !.response = guardError.response,
                              !.t = now,
                              !.returned = TRUE,
                              !.threw = TRUE]
    /\ ops' = ops + 1
    /\ UNCHANGED <<now, rateLimitEnabled, userActivity, blockedUsers,
                   suspiciousPatterns, guardUp, winAdmits, prevAdmitted,
                   minuteRejects, mustBlockUntil, sentLog, ticks>>
    /\ UNCHANGED <<sessVars, stateVars, appVars>>

\* botGuard.unblockUser(userId)
UnblockUser(userId) ==
    /\ guardUp
    /\ ops < MaxOps
    /\ blockedUsers' = Remove(blockedUsers, userId)
    /\ mustBlockUntil' = [mustBlockUntil EXCEPT ![userId] = -1]
    /\ last' = [NoLast EXCEPT !.op = "unblockUser", !.user = userId,
                              !.t = now,
                              !.returned = userId \in DOMAIN blockedUsers]
    /\ ops' = ops + 1
    /\ UNCHANGED <<now, rateLimitEnabled, userActivity, suspiciousPatterns,
                   guardUp, winAdmits, prevAdmitted, minuteRejects, sentLog,
                   ticks>>
    /\ UNCHANGED <<sessVars, stateVars, appVars>>

\* the records cleanupOldData deletes
StaleActivity(ua, t) ==
    {u \in DOMAIN ua : ua[u].lastMessageTime < t - DayMs}

StalePatterns(sp, t) ==
    {u \in DOMAIN sp :
        \/ Len(sp[u].lastMessages) = 0
        \/ sp[u].lastMessages[Len(sp[u].lastMessages)].timestamp < t - DayMs}

\* every block taken as expired
ExpiredBlocks_All(bu, t) == DOMAIN bu

\* now > blockInfo.blockedUntil
ExpiredBlocks(bu, t) ==
    {u \in DOMAIN bu : t > bu[u].blockedUntil}

\* the setInterval callback of setupCleanupTimer
CleanupOldData ==
    /\ guardUp
    /\ LET goneA == StaleActivity(userActivity, now)
           goneP == StalePatterns(suspiciousPatterns, now)
           goneB == ExpiredBlocks(blockedUsers, now)
       IN  /\ userActivity' = [u \in (DOMAIN userActivity) \ goneA |-> userActivity[u]]
           /\ suspiciousPatterns' =
                  [u \in (DOMAIN suspiciousPatterns) \ goneP |-> suspiciousPatterns[u]]
           /\ blockedUsers' = [u \in (DOMAIN blockedUsers) \ goneB |-> blockedUsers[u]]
           \* the tracking period of a sender ends with its activity record
           /\ minuteRejects' = [u \in Users |->
                                   IF u \in goneA THEN 0 ELSE minuteRejects[u]]
           /\ winAdmits' = [u \in Users |->
                               IF u \in goneA THEN 0 ELSE winAdmits[u]]
    /\ UNCHANGED <<now, rateLimitEnabled, guardUp, last, prevAdmitted,
                   mustBlockUntil, sentLog, ops, ticks>>
    /\ UNCHANGED <<sessVars, stateVars, appVars>>

\* BotGuard.shutdown(), called by Bot.cleanup, which then drops the guard
ShutdownGuard ==
    /\ guardUp
    /\ guardUp' = FALSE
    /\ userActivity' = EmptyMap
    /\ blockedUsers' = EmptyMap
    /\ suspiciousPatterns' = EmptyMap
    /\ winAdmits' = [u \in Users |-> 0]
    /\ prevAdmitted' = [u \in Users |-> FALSE]
    /\ minuteRejects' = [u \in Users |-> 0]
    /\ mustBlockUntil' = [u \in Users |-> -1]
    /\ last' = [NoLast EXCEPT !.op = "shutdown", !.t = now]
    /\ UNCHANGED <<now, rateLimitEnabled, sentLog, ops, ticks>>
    /\ UNCHANGED <<sessVars, stateVars, appVars>>

NextGuard ==
    \/ \E delta \in Deltas : Tick(delta)
    \/ \E userId \in Users : \E body \in BodiesOf(userId), isGroup \in BOOLEAN :
           CheckMessage(userId, body, isGroup)
    \/ CheckMessageThrows
    \/ \E userId \in Users \ {OwnerUser} : UnblockUser(userId)
    \/ CleanupOldData
    \/ ShutdownGuard

----------------------------------------------------------------------------
\* One sender writing in a burst, with rate limiting switched off

\* messages of the burst
MaxBurst == 7

\* the time between two messages of the sender: under the 2 seconds of the
\* rapid-fire test, between its 2 seconds and the 10 seconds of the decay,
\* and over the 10 seconds of the decay
BurstGaps == {500, 5000, 11000}

TextH == <<"h">>
TextI == <<"i">>
TextYo == <<"h", "i", "h">>
\* the texts the sender goes through
BurstTexts == <<TextHi, TextH, TextI, TextYo>>

\* what the sender writes next: the next text, or the previous one again
BurstBodies ==
    {BurstTexts[(ops % Len(BurstTexts)) + 1]}
        \cup {sentLog[OtherUser][i].text :
                  i \in {Len(sentLog[OtherUser])} \ {0}}

\* a message of the sender arrives gap milliseconds after the previous one:
\* await botGuard.checkMessage(message, chat, contact) with Date.now() then
BurstMessage(gap, body) ==
    /\ guardUp
    /\ ~rateLimitEnabled
    /\ ops < MaxBurst
    /\ now' = now + gap
    /\ Submit(OtherUser, body, FALSE, now + gap)
    /\ ops' = ops + 1
    /\ UNCHANGED <<rateLimitEnabled, guardUp, ticks>>
    /\ UNCHANGED <<sessVars, stateVars, appVars>>

NextBurst ==
    \E gap \in BurstGaps, body \in BurstBodies : BurstMessage(gap, body)

----------------------------------------------------------------------------
\* One sender whose messages fail the content heuristics

\* messages of the sender
MaxOffences == 5

\* the time between two messages of the sender: over the 5 minutes of the
\* repeated-message window, and over the 24 hours of the violation log
ContentGaps == {600001, 86400001}

\* a text of 2001 characters that matches none of the spam patterns
TextLong ==
    [i \in 1..(MaxMessageLength + 1) |->
        IF i % 4 = 1 THEN "h" ELSE IF i % 4 = 2 THEN "i"
        ELSE IF i % 4 = 3 THEN " " ELSE "x"]

ContentBodies == {TextSpam, TextLong}

\* messages over the length cap among them
MaxLong == 1

\* the messages over the length cap the sender has sent
LongSent ==
    Len(SelectSeq(sentLog[OtherUser],
                  LAMBDA m : Len(m.text) > MaxMessageLength))

\* a message of the sender arrives gap milliseconds after the previous one,
\* in a group or in a direct chat:
\* await botGuard.checkMessage(message, chat, contact) with Date.now() then
ContentMessage(gap, body, isGroup) ==
    /\ guardUp
    /\ ops < MaxOffences
    /\ Len(body) > MaxMessageLength => LongSent < MaxLong
    /\ now' = now + gap
    /\ Submit(OtherUser, body, isGroup, now + gap)
    /\ ops' = ops + 1
    /\ UNCHANGED <<rateLimitEnabled, guardUp, ticks>>
    /\ UNCHANGED <<sessVars, stateVars, appVars>>

NextContent ==
    \E gap \in ContentGaps, body \in ContentBodies, isGroup \in BOOLEAN :
        ContentMessage(gap, body, isGroup)

----------------------------------------------------------------------------
\* One sender who keeps running into the minute limit

\* messages of the sender
MaxWarned == 6

\* the time between two messages of the sender: within the minute, over the
\* minute window, over the 10 minutes of a rate-limit block, over the hour
WarnedGaps == {1000, 61000, 600001, 3600001}

\* a message of the sender arrives gap milliseconds after the previous one:
\* await botGuard.checkMessage(message, chat, contact) with Date.now() then
WarnedMessage(gap) ==
    /\ guardUp
    /\ rateLimitEnabled
    /\ ops < MaxWarned
    /\ now' = now + gap
    /\ Submit(OtherUser, TextHi, FALSE, now + gap)
    /\ ops' = ops + 1
    /\ UNCHANGED <<rateLimitEnabled, guardUp, ticks>>
    /\ UNCHANGED <<sessVars, stateVars, appVars>>

NextWarned ==
    \/ \E gap \in WarnedGaps : WarnedMessage(gap)
    \/ UnblockUser(OtherUser)
    \/ CleanupOldData

----------------------------------------------------------------------------
\* WhatsAppClient: configuration and bounds

\* config.whatsapp.maxReconnectAttempts
maxReconnectAttempts == 5
\* config.whatsapp.reconnectIntervalMs
reconnectIntervalMs == 5000
\* config.whatsapp.qrMaxRetries
qrMaxRetries == 5
\* the ceiling of the back-off delay
MaxDelayMs == 30000

\* number of transport handles explored
MaxHandles == 3
\* number of connect()/disconnect() calls by the application explored
MaxCalls == 3

\* lastDisconnect.error.output.statusCode, as far as the code tells them apart
CloseReasons == {"connectionLost", "loggedOut"}

----------------------------------------------------------------------------
\* WhatsAppClient: helpers

MinOf(a, b) == IF a <= b THEN a ELSE b

\* Math.pow(2, n)
RECURSIVE Pow2(_)
Pow2(n) == IF n <= 0 THEN 1 ELSE 2 * Pow2(n - 1)

ReconnectDelay_Uncapped(attempt) == reconnectIntervalMs * Pow2(attempt - 1)

\* Math.min(reconnectIntervalMs * Math.pow(2, reconnectAttempts - 1), 30000)
ReconnectDelay(attempt) ==
    MinOf(reconnectIntervalMs * Pow2(attempt - 1), MaxDelayMs)

\* a fresh identity for a setTimeout callback
FreshTimerId(ts) ==
    CHOOSE n \in 1..(Cardinality(ts) + 1) : \A t \in ts : t.id # n

\* a fresh identity for a suspended connect() call
FreshConnectId(cs) ==
    CHOOSE n \in 1..(Cardinality(cs) + 1) : \A c \in cs : c.id # n

\* attemptReconnection that gives up one attempt late
attemptReconnection_OneMore(attempts, ts) ==
    IF attempts > maxReconnectAttempts
    THEN [attempts |-> attempts, timers |-> ts, scheduled |-> FALSE]
    ELSE [attempts |-> attempts + 1,
          timers |-> ts \cup {[id |-> FreshTimerId(ts),
                               delay |-> ReconnectDelay(attempts + 1),
                               stale |-> FALSE]},
          scheduled |-> TRUE]

\* attemptReconnection(): the counter and the timers after the call
attemptReconnection(attempts, ts) ==
    IF attempts >= maxReconnectAttempts
    THEN [attempts |-> attempts, timers |-> ts, scheduled |-> FALSE]
    ELSE [attempts |-> attempts + 1,
          timers |-> ts \cup {[id |-> FreshTimerId(ts),
                               delay |-> ReconnectDelay(attempts + 1),
                               stale |-> FALSE]},
          scheduled |-> TRUE]

\* disconnectReason !== DisconnectReason.loggedOut
shouldReconnect(reason) == reason # "loggedOut"

\* handleDisconnection(lastDisconnect): the counter and the timers after it
handleDisconnection(reason, attempts, ts) ==
    IF shouldReconnect(reason)
    THEN attemptReconnection(attempts, ts)
    ELSE [attempts |-> attempts, timers |-> ts, scheduled |-> FALSE]

NoSessionStep ==
    [op |-> "init", noop |-> FALSE, started |-> FALSE, stale |-> FALSE,
     busyBefore |-> FALSE, reason |-> "none", scheduled |-> FALSE,
     byTimer |-> FALSE, saved |-> TRUE, connectedBefore |-> FALSE,
     connectingBefore |-> FALSE]

\* the delays scheduled since the last open event
DelaysAfter(r) ==
    IF r.scheduled THEN Append(delays, ReconnectDelay(r.attempts)) ELSE delays

----------------------------------------------------------------------------
\* WhatsAppClient: operations

InitSession ==
    /\ sock = 0
    /\ isConnected = FALSE
    /\ isConnecting = FALSE
    /\ qrRetries = 0
    /\ reconnectAttempts = 0
    /\ liveSocks = {}
    /\ openSocks = {}
    /\ connects = {}
    /\ timers = {}
    /\ slast = NoSessionStep
    /\ delays = <<>>
    /\ loggedOut = FALSE
    /\ handlesMade = 0
    /\ calls = 0
    /\ credsFailed = {}

\* connect() without the test of isConnected
Connect_IgnoresConnected ==
    /\ calls < MaxCalls
    /\ calls' = calls + 1
    /\ IF isConnecting
       THEN /\ slast' = [NoSessionStep EXCEPT !.op = "connect", !.noop = TRUE,
                                              !.busyBefore = TRUE]
            /\ UNCHANGED <<isConnecting, connects, loggedOut>>
       ELSE /\ isConnecting' = TRUE
            /\ connects' = connects \cup {[id |-> FreshConnectId(connects),
                                           byTimer |-> FALSE]}
            /\ slast' = [NoSessionStep EXCEPT !.op = "connect", !.started = TRUE]
            /\ loggedOut' = FALSE
    /\ UNCHANGED <<sock, isConnected, qrRetries, reconnectAttempts, liveSocks,
                   openSocks, timers, delays, handlesMade>>
    /\ UNCHANGED credsFailed
    /\ UNCHANGED <<guardVars, stateVars, appVars>>

\* connect() up to its first await, called by the application
Connect ==
    /\ calls < MaxCalls
    /\ calls' = calls + 1
    /\ IF isConnecting \/ isConnected
       THEN /\ slast' = [NoSessionStep EXCEPT !.op = "connect", !.noop = TRUE,
                                              !.busyBefore = TRUE]
            /\ UNCHANGED <<isConnecting, connects, loggedOut>>
       ELSE /\ isConnecting' = TRUE
            /\ connects' = connects \cup {[id |-> FreshConnectId(connects),
                                           byTimer |-> FALSE]}
            /\ slast' = [NoSessionStep EXCEPT !.op = "connect", !.started = TRUE]
            /\ loggedOut' = FALSE
    /\ UNCHANGED <<sock, isConnected, qrRetries, reconnectAttempts, liveSocks,
                   openSocks, timers, delays, handlesMade>>
    /\ UNCHANGED credsFailed
    /\ UNCHANGED <<guardVars, stateVars, appVars>>

\* connect() from makeWASocket to its return
ConnectResume(c) ==
    /\ c \in connects
    /\ handlesMade < MaxHandles
    /\ handlesMade' = handlesMade + 1
    /\ sock' = handlesMade + 1
    /\ liveSocks' = liveSocks \cup {handlesMade + 1}
    /\ connects' = connects \ {c}
    /\ slast' = [NoSessionStep EXCEPT !.op = "socket", !.byTimer = c.byTimer]
    /\ UNCHANGED <<isConnected, isConnecting, qrRetries, reconnectAttempts,
                   openSocks, timers, delays, loggedOut, calls>>
    /\ UNCHANGED credsFailed
    /\ UNCHANGED <<guardVars, stateVars, appVars>>

\* connect() throws inside its try block; the timer callback catches the
\* error and calls attemptReconnection(), another caller receives it
ConnectFail(c) ==
    /\ c \in connects
    /\ connects' = connects \ {c}
    /\ isConnecting' = FALSE
    /\ LET r == IF c.byTimer
                THEN attemptReconnection(reconnectAttempts, timers)
                ELSE [attempts |-> reconnectAttempts, timers |-> timers,
                      scheduled |-> FALSE]
       IN  /\ reconnectAttempts' = r.attempts
           /\ timers' = r.timers
           /\ delays' = DelaysAfter(r)
           /\ slast' = [NoSessionStep EXCEPT !.op = "connectFailed",
                                             !.byTimer = c.byTimer,
                                             !.scheduled = r.scheduled]
    /\ UNCHANGED <<sock, isConnected, qrRetries, liveSocks, openSocks,
                   loggedOut, handlesMade, calls>>
    /\ UNCHANGED credsFailed
    /\ UNCHANGED <<guardVars, stateVars, appVars>>

\* the setTimeout callback of attemptReconnection: connect() up to its
\* first await
TimerFire(t) ==
    /\ t \in timers
    /\ timers' = timers \ {t}
    /\ IF isConnecting \/ isConnected
       THEN /\ slast' = [NoSessionStep EXCEPT !.op = "timer", !.noop = TRUE,
                                              !.busyBefore = TRUE,
                                              !.stale = t.stale,
                                              !.byTimer = TRUE]
            /\ UNCHANGED <<isConnecting, connects>>
       ELSE /\ isConnecting' = TRUE
            /\ connects' = connects \cup {[id |-> FreshConnectId(connects),
                                           byTimer |-> TRUE]}
            /\ slast' = [NoSessionStep EXCEPT !.op = "timer", !.started = TRUE,
                                              !.stale = t.stale,
                                              !.byTimer = TRUE]
    /\ UNCHANGED <<sock, isConnected, qrRetries, reconnectAttempts, liveSocks,
                   openSocks, delays, loggedOut, handlesMade, calls>>
    /\ UNCHANGED credsFailed
    /\ UNCHANGED <<guardVars, stateVars, appVars>>

\* handleConnection that leaves reconnectAttempts as it is
OnOpen_KeepsAttempts(h) ==
    /\ h \in liveSocks \ openSocks
    /\ openSocks' = openSocks \cup {h}
    /\ isConnected' = TRUE
    /\ isConnecting' = FALSE
    /\ qrRetries' = 0
    /\ slast' = [NoSessionStep EXCEPT !.op = "open"]
    /\ UNCHANGED <<sock, liveSocks, connects, timers, loggedOut, handlesMade,
                   calls, reconnectAttempts, delays>>
    /\ UNCHANGED credsFailed
    /\ UNCHANGED <<guardVars, stateVars, appVars>>

\* 'connection.update' with connection === 'open': handleConnection()
OnOpen(h) ==
    /\ h \in liveSocks \ openSocks
    /\ openSocks' = openSocks \cup {h}
    /\ isConnected' = TRUE
    /\ isConnecting' = FALSE
    /\ qrRetries' = 0
    /\ reconnectAttempts' = 0
    /\ delays' = <<>>
    /\ slast' = [NoSessionStep EXCEPT !.op = "open"]
    /\ UNCHANGED <<sock, liveSocks, connects, timers, loggedOut, handlesMade,
                   calls>>
    /\ UNCHANGED credsFailed
    /\ UNCHANGED <<guardVars, stateVars, appVars>>

\* 'connection.update' with connection === 'close': handleDisconnection()
OnClose(h, reason) ==
    /\ h \in liveSocks
    /\ liveSocks' = liveSocks \ {h}
    /\ openSocks' = openSocks \ {h}
    /\ isConnected' = FALSE
    /\ isConnecting' = FALSE
    /\ LET r == handleDisconnection(reason, reconnectAttempts, timers)
       IN  /\ reconnectAttempts' = r.attempts
           /\ timers' = r.timers
           /\ delays' = DelaysAfter(r)
           /\ slast' = [NoSessionStep EXCEPT !.op = "close", !.reason = reason,
                                             !.scheduled = r.scheduled]
    /\ loggedOut' = (loggedOut \/ reason = "loggedOut")
    /\ UNCHANGED <<sock, qrRetries, connects, handlesMade, calls>>
    /\ credsFailed' = credsFailed \ {h}
    /\ UNCHANGED <<guardVars, stateVars, appVars>>

\* disconnect(): sock.end() closes the handle, and the transport may report
\* that closure with a close event (no status code) before end() returns
disconnect(emitsClose, byApplication) ==
    LET ends == sock # 0 /\ sock \in liveSocks
        r == IF ends /\ emitsClose
             THEN handleDisconnection("none", reconnectAttempts, timers)
             ELSE [attempts |-> reconnectAttempts, timers |-> timers,
                   scheduled |-> FALSE]
    IN  /\ liveSocks' = liveSocks \ {sock}
        /\ openSocks' = openSocks \ {sock}
        /\ sock' = 0
        /\ isConnected' = FALSE
        /\ isConnecting' = FALSE
        /\ reconnectAttempts' = r.attempts
        \* history: the timers that were pending when the application called
        \* disconnect() are marked
        /\ timers' = {[t EXCEPT !.stale = (@ \/ byApplication)] : t \in timers}
                         \cup (r.timers \ timers)
        /\ delays' = DelaysAfter(r)

\* disconnect(), called by the application (Bot.stop)
Disconnect(emitsClose) ==
    /\ calls < MaxCalls
    /\ calls' = calls + 1
    /\ disconnect(emitsClose, TRUE)
    /\ slast' = [NoSessionStep EXCEPT
                    !.op = "disconnect",
                    !.scheduled = (reconnectAttempts' > reconnectAttempts)]
    /\ UNCHANGED <<qrRetries, connects, loggedOut, handlesMade>>
    /\ credsFailed' = credsFailed \ {sock}
    /\ UNCHANGED <<guardVars, stateVars, appVars>>

\* 'connection.update' with a qr payload: handleQRCode()
OnQR(h, emitsClose) ==
    /\ h \in liveSocks \ openSocks
    /\ qrRetries <= qrMaxRetries
    /\ qrRetries' = qrRetries + 1
    /\ IF qrRetries + 1 > qrMaxRetries
       THEN disconnect(emitsClose, FALSE)
       ELSE UNCHANGED <<sock, isConnected, isConnecting, reconnectAttempts,
                        liveSocks, openSocks, timers, delays>>
    /\ slast' = [NoSessionStep EXCEPT
                    !.op = "qr",
                    !.noop = qrRetries + 1 <= qrMaxRetries,
                    !.scheduled = (reconnectAttempts' > reconnectAttempts)]
    /\ UNCHANGED <<connects, loggedOut, handlesMade, calls>>
    /\ credsFailed' = IF qrRetries + 1 > qrMaxRetries
                    THEN credsFailed \ {sock} ELSE credsFailed
    /\ UNCHANGED <<guardVars, stateVars, appVars>>

credsUpdate_Escalates(saved, flag) == saved /\ flag

\* the 'creds.update' listener: a connection flag after saveCreds() has
\* resolved or has thrown into the listener's catch block
credsUpdate(saved, flag) == flag

\* 'creds.update': saveCreds() inside try/catch
OnCredsUpdate(h, saved) ==
    /\ h \in liveSocks
    /\ saved \/ h \notin credsFailed
    /\ credsFailed' = IF saved THEN credsFailed ELSE credsFailed \cup {h}
    /\ isConnected' = credsUpdate(saved, isConnected)
    /\ isConnecting' = credsUpdate(saved, isConnecting)
    /\ slast' = [NoSessionStep EXCEPT !.op = "credsUpdate",
                                      !.saved = saved,
                                      !.connectedBefore = isConnected,
                                      !.connectingBefore = isConnecting]
    /\ UNCHANGED <<sock, qrRetries, reconnectAttempts, liveSocks, openSocks,
                   connects, timers, delays, loggedOut, handlesMade, calls>>
    /\ UNCHANGED <<guardVars, stateVars, appVars>>

NextSession ==
    \/ Connect
    \/ \E c \in connects : ConnectResume(c)
    \/ \E c \in connects : ConnectFail(c)
    \/ \E t \in timers : TimerFire(t)
    \/ \E h \in liveSocks : OnOpen(h)
    \/ \E h \in liveSocks, reason \in CloseReasons : OnClose(h, reason)
    \/ \E emitsClose \in BOOLEAN : Disconnect(emitsClose)
    \/ \E h \in liveSocks, emitsClose \in BOOLEAN : OnQR(h, emitsClose)
    \/ \E h \in liveSocks, saved \in BOOLEAN : OnCredsUpdate(h, saved)

----------------------------------------------------------------------------
\* BotStateManager: configuration and bounds

\* the delay of saveStateDebounced(delayMs = 2000)
DebounceMs == 2000
\* the time up to which the model runs
MaxClock == 4000
\* number of setState() calls explored
MaxSetStates == 2
\* number of external events (damage to the state file, new instances)
\* explored
MaxBudget == 2
\* number of auto-save ticks explored
MaxAutoSaves == 1
\* number of saveState() calls in flight at a time
MaxInFlight == 2
\* number of saveState() calls explored
MaxSaves == 2

----------------------------------------------------------------------------
\* BotStateManager: JSON values and objects

\* a JSON value with its typeof
Bool(b) == [t |-> "boolean", v |-> b]
Str(x) == [t |-> "string", v |-> x]
Null == [t |-> "object", v |-> "null"]

\* new Date().toISOString() at the time of a validation or a save
NowIso == "now"

\* the fields of config.state.default that the model follows
DefaultState ==
    [isActive |-> Bool("true"), toggledBy |-> Null, lastToggled |-> Str("d0")]

Keys == DOMAIN DefaultState

\* the date fields that validateAndMergeState re-checks
DateFields == {"lastToggled"}

\* isNaN(new Date(x)) is false
IsValidDate(x) == x # "garbage"

\* an object without own properties
EmptyObject == [k \in {} |-> Null]

\* the arguments of setState: {isActive:false}, {isActive:true}, and the
\* object MessageHandler.toggleBot passes to deactivate the bot
PatchOff == [isActive |-> Bool("false")]
PatchOn == [isActive |-> Bool("true")]
ToggleOff ==
    [isActive |-> Bool("false"), lastToggled |-> Str("d1"),
     toggledBy |-> Str("91")]
Patches == {PatchOff, PatchOn, ToggleOff}

\* { ...this.state, ...newState }
Merge(st, newState) ==
    [k \in Keys |-> IF k \in DOMAIN newState THEN newState[k] ELSE st[k]]

\* { ...this.state, lastSaved: new Date().toISOString() }
WithMetadata(st) ==
    [k \in Keys \cup {"lastSaved"} |->
        IF k = "lastSaved" THEN Str(NowIso) ELSE st[k]]

\* validateAndMergeState(loadedState)
validateAndMergeState(loadedState) ==
    [k \in Keys |->
        LET merged == IF /\ k \in DOMAIN loadedState
                         /\ loadedState[k].t = DefaultState[k].t
                      THEN loadedState[k]
                      ELSE DefaultState[k]
        IN  IF k \in DateFields /\ merged.t = "string" /\ ~IsValidDate(merged.v)
            THEN Str(NowIso)
            ELSE merged]

\* the content of a store: absent, unusable, or a JSON object
Stored(kind, obj) == [kind |-> kind, obj |-> obj]
Missing == Stored("missing", DefaultState)
Corrupt == Stored("corrupt", DefaultState)
Partial == Stored("partial", DefaultState)
NullRow == Stored("null", DefaultState)
Json(obj) == Stored("json", obj)

\* the state fields of a stored object
FieldsOf(obj) == [k \in Keys |-> obj[k]]

\* fresh identities for timers, suspended calls and saves
FreshId(rs) == CHOOSE n \in 1..(Cardinality(rs) + 1) : \A r \in rs : r.id # n

NoStateStep ==
    [op |-> "init", raised |-> FALSE, primaryFailed |-> FALSE,
     readFallback |-> FALSE, fallbackValid |-> FALSE, source |-> "none",
     patch |-> PatchOn]

NoSaveCounts == [debounce |-> 0, auto |-> 0, shutdown |-> 0]

----------------------------------------------------------------------------
\* BotStateManager: operations

InitState ==
    /\ state = DefaultState
    /\ isInitialized = FALSE
    /\ saveTimeout = 0
    /\ autoSaveInterval = FALSE
    /\ hasPool \in BOOLEAN
    /\ dbRow \in IF hasPool THEN {Missing, NullRow} ELSE {Missing}
    /\ fileData \in {Missing, Corrupt}
    /\ tmpData = Missing
    /\ debounceTimers = {}
    /\ setCalls = {}
    /\ saves = {}
    /\ mclock = 0
    /\ mlast = NoStateStep
    /\ callLog = <<>>
    /\ saveCounts = NoSaveCounts
    /\ fileIntact = FALSE
    /\ budget = 0

\* loadState(): the state it leaves in memory
loadState(file) ==
    IF file.kind = "json" THEN validateAndMergeState(file.obj) ELSE DefaultState

\* loadState(): the state file it leaves; only a missing file is created
loadStateFile(file) ==
    IF file.kind = "missing" THEN Json(WithMetadata(DefaultState)) ELSE file

\* initialize(): _loadStateFromDB(), on a failure loadState(), then
\* setupAutoSave()
Initialize(dbFails) ==
    /\ ~isInitialized
    /\ mlast.op \in {"init", "newInstance"}
    /\ dbFails => hasPool
    /\ LET primaryFailed == hasPool /\ (dbFails \/ dbRow.kind = "null")
           fromFile == ~hasPool \/ primaryFailed
       IN  /\ state' = IF fromFile THEN loadState(fileData)
                       ELSE IF dbRow.kind = "json"
                            THEN validateAndMergeState(dbRow.obj)
                            ELSE DefaultState
           /\ dbRow' = IF ~fromFile /\ dbRow.kind = "missing"
                       THEN Json(WithMetadata(DefaultState))
                       ELSE dbRow
           /\ fileData' = IF fromFile THEN loadStateFile(fileData) ELSE fileData
           /\ fileIntact' = IF fromFile /\ fileData.kind = "missing"
                            THEN TRUE ELSE fileIntact
           /\ mlast' = [NoStateStep EXCEPT
                          !.op = "initialize",
                          !.primaryFailed = primaryFailed,
                          !.readFallback = fromFile,
                          !.fallbackValid = (fileData.kind = "json"),
                          !.source = IF ~fromFile THEN "primary" ELSE "fallback"]
    /\ autoSaveInterval' = TRUE
    /\ isInitialized' = TRUE
    /\ UNCHANGED <<saveTimeout, hasPool, tmpData, debounceTimers, setCalls,
                   saves, mclock, callLog, saveCounts, budget>>
    /\ UNCHANGED <<guardVars, sessVars, appVars>>

\* saveStateDebounced(): the pending timers after the call
saveStateDebounced(ts, handle, id) ==
    {t \in ts : t.id # handle} \cup {[id |-> id, due |-> mclock + DebounceMs]}

\* setState(newState) up to its first await: the merge, then
\* _saveStateToDB() up to pool.connect() when a pool is configured, else
\* saveStateDebounced() and the return
SetState(newState, connectFails) ==
    /\ isInitialized
    /\ Len(callLog) < MaxSetStates
    /\ connectFails => hasPool
    /\ state' = Merge(state, newState)
    /\ callLog' = Append(callLog, [patch |-> newState, t |-> mclock])
    /\ IF hasPool
       THEN /\ setCalls' = IF connectFails THEN setCalls
                           ELSE setCalls \cup {[id |-> FreshId(setCalls)]}
            /\ UNCHANGED <<saveTimeout, debounceTimers>>
       ELSE /\ LET id == FreshId(debounceTimers)
               IN  /\ debounceTimers' =
                          saveStateDebounced(debounceTimers, saveTimeout, id)
                   /\ saveTimeout' = id
            /\ UNCHANGED setCalls
    /\ mlast' = [NoStateStep EXCEPT !.op = "setState",
                                    !.raised = connectFails,
                                    !.patch = newState]
    /\ UNCHANGED <<isInitialized, autoSaveInterval, hasPool, dbRow, fileData,
                   tmpData, saves, mclock, saveCounts, fileIntact, budget>>
    /\ UNCHANGED <<guardVars, sessVars, appVars>>

\* setState() from the query of _saveStateToDB() to its return: a failed
\* query is caught and logged, then saveStateDebounced()
SetStateResume(c, queryFails) ==
    /\ c \in setCalls
    /\ setCalls' = setCalls \ {c}
    /\ dbRow' = IF queryFails THEN dbRow ELSE Json(WithMetadata(state))
    /\ LET id == FreshId(debounceTimers)
       IN  /\ debounceTimers' =
                  saveStateDebounced(debounceTimers, saveTimeout, id)
           /\ saveTimeout' = id
    /\ mlast' = [NoStateStep EXCEPT !.op = "setStateReturn"]
    /\ UNCHANGED <<state, isInitialized, autoSaveInterval, hasPool, fileData,
                   tmpData, saves, mclock, callLog, saveCounts, fileIntact,
                   budget>>
    /\ UNCHANGED <<guardVars, sessVars, appVars>>

\* time passes, one debounce delay at a time
AdvanceClock ==
    /\ mclock < MaxClock
    /\ debounceTimers # {}
    /\ mclock' = mclock + DebounceMs
    /\ mlast' = [NoStateStep EXCEPT !.op = "time"]
    /\ UNCHANGED <<state, isInitialized, saveTimeout, autoSaveInterval,
                   hasPool, dbRow, fileData, tmpData, debounceTimers,
                   setCalls, saves, callLog, saveCounts, fileIntact, budget>>
    /\ UNCHANGED <<guardVars, sessVars, appVars>>

\* the saveState() calls made so far
SavesStarted == saveCounts.debounce + saveCounts.auto + saveCounts.shutdown

\* saveState() up to its first await: a pending debounce timer is cleared
saveStateBegin(ts, origin) ==
    [timers |-> {t \in ts : t.id # saveTimeout},
     saves |-> saves \cup {[id |-> FreshId(saves), origin |-> origin,
                            pc |-> "mkdir", snap |-> DefaultState,
                            target |-> "none"]}]

\* the callback of saveStateDebounced's timer
DebounceFire(t) ==
    /\ t \in debounceTimers
    /\ Cardinality(saves) < MaxInFlight
    /\ SavesStarted < MaxSaves
    /\ mclock >= t.due
    /\ LET b == saveStateBegin(debounceTimers \ {t}, "debounce")
       IN  /\ debounceTimers' = b.timers
           /\ saves' = b.saves
    /\ saveTimeout' = 0
    /\ saveCounts' = [saveCounts EXCEPT !.debounce = @ + 1]
    /\ mlast' = [NoStateStep EXCEPT !.op = "debounceFire"]
    /\ UNCHANGED <<state, isInitialized, autoSaveInterval, hasPool, dbRow,
                   fileData, tmpData, setCalls, mclock, callLog, fileIntact,
                   budget>>
    /\ UNCHANGED <<guardVars, sessVars, appVars>>

\* the callback of setupAutoSave's interval
AutoSave ==
    /\ autoSaveInterval
    /\ Cardinality(saves) < MaxInFlight
    /\ SavesStarted < MaxSaves
    /\ saveCounts.auto < MaxAutoSaves
    /\ LET b == saveStateBegin(debounceTimers, "auto")
       IN  /\ debounceTimers' = b.timers
           /\ saves' = b.saves
    /\ saveTimeout' = 0
    /\ saveCounts' = [saveCounts EXCEPT !.auto = @ + 1]
    /\ mlast' = [NoStateStep EXCEPT !.op = "autoSave"]
    /\ UNCHANGED <<state, isInitialized, autoSaveInterval, hasPool, dbRow,
                   fileData, tmpData, setCalls, mclock, callLog, fileIntact,
                   budget>>
    /\ UNCHANGED <<guardVars, sessVars, appVars>>

\* shutdown(): both timers are cleared, the final save to the database and
\* the final saveState() up to its first await
Shutdown ==
    /\ isInitialized
    /\ Cardinality(saves) < MaxInFlight
    /\ SavesStarted < MaxSaves
    /\ setCalls = {}
    /\ autoSaveInterval' = FALSE
    /\ LET b == saveStateBegin(debounceTimers, "shutdown")
       IN  /\ debounceTimers' = b.timers
           /\ saves' = b.saves
    /\ saveTimeout' = 0
    /\ dbRow' = IF hasPool THEN Json(WithMetadata(state)) ELSE dbRow
    /\ isInitialized' = FALSE
    /\ saveCounts' = [saveCounts EXCEPT !.shutdown = @ + 1]
    /\ mlast' = [NoStateStep EXCEPT !.op = "shutdown"]
    /\ UNCHANGED <<state, hasPool, fileData, tmpData, setCalls, mclock,
                   callLog, fileIntact, budget>>
    /\ UNCHANGED <<guardVars, sessVars, appVars>>

\* saveState() after mkdir: the state is serialised and fs.writeFile opens
\* the .tmp file, which truncates it
SaveWrite(s) ==
    /\ s \in saves
    /\ s.pc = "mkdir"
    /\ saves' = (saves \ {s}) \cup
                    {[s EXCEPT !.pc = "writing",
                               !.snap = WithMetadata(state),
                               !.target = "tmp"]}
    /\ tmpData' = Partial
    /\ mlast' = [NoStateStep EXCEPT !.op = "saveWrite"]
    /\ UNCHANGED <<state, isInitialized, saveTimeout, autoSaveInterval,
                   hasPool, dbRow, fileData, debounceTimers, setCalls, mclock,
                   callLog, saveCounts, fileIntact, budget>>
    /\ UNCHANGED <<guardVars, sessVars, appVars>>

\* what a file holds once one of its writers has finished
Written(s) ==
    IF \E o \in saves \ {s} : o.pc = "writing" /\ o.target = s.target
    THEN Partial
    ELSE Json(s.snap)

\* fs.writeFile has written the whole text into the file it has opened
SaveWritten(s) ==
    /\ s \in saves
    /\ s.pc = "writing"
    /\ saves' = (saves \ {s}) \cup {[s EXCEPT !.pc = "rename"]}
    /\ tmpData' = IF s.target = "tmp" THEN Written(s) ELSE tmpData
    /\ fileData' = IF s.target = "file" THEN Written(s) ELSE fileData
    /\ mlast' = [NoStateStep EXCEPT !.op = "saveWritten"]
    /\ UNCHANGED <<state, isInitialized, saveTimeout, autoSaveInterval,
                   hasPool, dbRow, debounceTimers, setCalls, mclock, callLog,
                   saveCounts, fileIntact, budget>>
    /\ UNCHANGED <<guardVars, sessVars, appVars>>

\* where a writer's open file is after the .tmp file was renamed
Renamed(target) ==
    IF target = "tmp" THEN "file" ELSE IF target = "file" THEN "gone" ELSE target

\* fs.rename(tempPath, statePath); without a .tmp file it fails and the
\* caller logs the error
SaveRename(s) ==
    /\ s \in saves
    /\ s.pc = "rename"
    /\ IF tmpData.kind = "missing"
       THEN /\ saves' = saves \ {s}
            /\ mlast' = [NoStateStep EXCEPT !.op = "saveFailed"]
            /\ UNCHANGED <<fileData, tmpData, fileIntact>>
       ELSE /\ saves' = {[o EXCEPT !.target = IF o.pc = "writing"
                                               THEN Renamed(@) ELSE @] :
                            o \in saves \ {s}}
            /\ fileData' = tmpData
            /\ tmpData' = Missing
            /\ fileIntact' = TRUE
            /\ mlast' = [NoStateStep EXCEPT !.op = "saved"]
    /\ UNCHANGED <<state, isInitialized, saveTimeout, autoSaveInterval,
                   hasPool, dbRow, debounceTimers, setCalls, mclock, callLog,
                   saveCounts, budget>>
    /\ UNCHANGED <<guardVars, sessVars, appVars>>

\* damage to the state file from outside the program: the file becomes
\* unparsable, or one field is removed or gets a value of another type
Damage(file, k, how) ==
    IF how = "file" THEN Corrupt
    ELSE IF how = "remove"
    THEN Json([j \in (DOMAIN file.obj) \ {k} |-> file.obj[j]])
    ELSE Json([file.obj EXCEPT ![k] = Str("garbage")])

DamageFile(k, how) ==
    /\ ~isInitialized
    /\ saves = {}
    /\ fileData.kind = "json"
    /\ fileIntact
    /\ budget < MaxBudget
    /\ budget' = budget + 1
    /\ fileData' = Damage(fileData, k, how)
    /\ fileIntact' = FALSE
    /\ mlast' = [NoStateStep EXCEPT !.op = "damage"]
    /\ UNCHANGED <<state, isInitialized, saveTimeout, autoSaveInterval,
                   hasPool, dbRow, tmpData, debounceTimers, setCalls, saves,
                   mclock, callLog, saveCounts>>
    /\ UNCHANGED <<guardVars, sessVars, appVars>>

\* new BotStateManager(config) in a new process
NewInstance ==
    /\ ~isInitialized
    /\ mlast.op \notin {"init", "newInstance"}
    /\ debounceTimers = {}
    /\ saves = {}
    /\ setCalls = {}
    /\ budget < MaxBudget
    /\ budget' = budget + 1
    /\ state' = DefaultState
    /\ saveTimeout' = 0
    /\ autoSaveInterval' = FALSE
    /\ debounceTimers' = {}
    /\ mlast' = [NoStateStep EXCEPT !.op = "newInstance"]
    /\ UNCHANGED <<isInitialized, hasPool, dbRow, fileData, tmpData, setCalls,
                   saves, mclock, callLog, saveCounts, fileIntact>>
    /\ UNCHANGED <<guardVars, sessVars, appVars>>

NextState ==
    \/ \E dbFails \in BOOLEAN : Initialize(dbFails)
    \/ \E newState \in Patches, connectFails \in BOOLEAN :
           SetState(newState, connectFails)
    \/ \E c \in setCalls, queryFails \in BOOLEAN : SetStateResume(c, queryFails)
    \/ AdvanceClock
    \/ \E t \in debounceTimers : DebounceFire(t)
    \/ AutoSave
    \/ Shutdown
    \/ \E s \in saves : SaveWrite(s)
    \/ \E s \in saves : SaveWritten(s)
    \/ \E s \in saves : SaveRename(s)
    \/ \E k \in Keys, how \in {"file", "remove", "type"} : DamageFile(k, how)
    \/ NewInstance

----------------------------------------------------------------------------
\* Bot and MessageHandler: inputs and bounds

\* number of inbound messages explored
MaxMessages == 3

\* config.messages.commands.prefix
commandPrefix == "/"

\* the command texts the senders submit, next to the plain text TextHi
CmdOn == <<"/", "o", "n">>
CmdOff == <<"/", "o", "f", "f">>
CmdStop == <<"/", "S", "t", "o", "p">>
CmdJoke == <<"/", " ", "j", "o", "k", "e", " ", "x">>
AppBodies == {TextHi, CmdOn, CmdOff, CmdStop, CmdJoke}

\* the case labels of handleCommand's switch that the model tells apart
OnNames ==
    {<<"o", "n">>, <<"s", "t", "a", "r", "t">>,
     <<"a", "c", "t", "i", "v", "a", "t", "e">>}
OffNames ==
    {<<"o", "f", "f">>, <<"s", "t", "o", "p">>,
     <<"d", "e", "a", "c", "t", "i", "v", "a", "t", "e">>}
AiNames ==
    {<<"j", "o", "k", "e">>, <<"f", "a", "c", "t">>,
     <<"q", "u", "o", "t", "e">>}

\* this.state.isActive
IsActive(st) == st.isActive = Bool("true")

\* the object MessageHandler.toggleBot passes to setState
TogglePatch(activate) == IF activate THEN Merge(ToggleOff, PatchOn) ELSE ToggleOff

----------------------------------------------------------------------------
\* MessageHandler: decisions

\* isCommand(text)
isCommand(text) == text # <<>> /\ Head(text) = commandPrefix

\* the first element of cleanText.split(/\s+/)
RECURSIVE FirstWord(_)
FirstWord(s) ==
    IF s = <<>> \/ IsSpace(Head(s)) THEN <<>>
    ELSE <<Head(s)>> \o FirstWord(Tail(s))

\* parseCommand(text).name
parseCommand(text) == FirstWord(Trim(Tail(text)))

\* isOwner without the comparison of the two numbers
MessageHandler_isOwner_AnyNumber(phoneNumber) ==
    ~(phoneNumber = <<>> \/ OwnerNumber = <<>>)

\* MessageHandler.isOwner(phoneNumber)
MessageHandler_isOwner(phoneNumber) ==
    IF phoneNumber = <<>> \/ OwnerNumber = <<>> THEN FALSE
    ELSE StripNonDigits(OwnerNumber) = StripNonDigits(phoneNumber)

\* what a handler did: the reply it sent, whether it called setState (and
\* with which isActive), whether it asked the AI client for a response
Outcome(reply, toggles, activate, ai) ==
    [reply |-> reply, toggles |-> toggles, activate |-> activate, ai |-> ai]

\* MessageHandler.toggleBot(message, activate, toggledBy)
toggleBot(activate, active) ==
    IF activate /\ active THEN Outcome("alreadyOn", FALSE, activate, FALSE)
    ELSE IF ~activate /\ ~active
         THEN Outcome("alreadyOff", FALSE, activate, FALSE)
         ELSE Outcome(IF activate THEN "botActivated" ELSE "botDeactivated",
                      TRUE, activate, FALSE)

\* the switch label a command name falls under
CommandKind(name) ==
    IF name \in OnNames THEN "on"
    ELSE IF name \in OffNames THEN "off"
    ELSE IF name \in AiNames THEN "ai"
    ELSE "other"

\* handleCommand(message, messageText, contact): the on/off cases, the
\* joke/fact/quote cases, and every other case as a plain reply
handleCommand(messageText, userId, active) ==
    LET kind == CommandKind(ToLowerCase(parseCommand(messageText)))
        owner == MessageHandler_isOwner(LocalPart(userId))
    IN  IF kind \in {"on", "off"}
        THEN IF ~owner THEN Outcome("unauthorized", FALSE, FALSE, FALSE)
             ELSE toggleBot(kind = "on", active)
        ELSE IF kind = "ai"
             THEN IF active THEN Outcome("ai", FALSE, FALSE, TRUE)
                  ELSE Outcome("inactive", FALSE, FALSE, FALSE)
             ELSE Outcome("other", FALSE, FALSE, FALSE)

\* handleMessage(message, chat, contact) for a text message of a direct
\* chat: the route taken, its outcome, the guard's decision when the guard
\* was asked, and the guard's maps afterwards
handleMessage(userId, body, fromMe, active, ua, bu, sp, t) ==
    LET messageText == Trim(body)
        quiet == Outcome("none", FALSE, FALSE, FALSE)
        idle == [res |-> Pass, ua |-> ua, bu |-> bu, sp |-> sp]
    IN  IF fromMe
        THEN IF MessageHandler_isOwner(LocalPart(userId))
                /\ isCommand(messageText)
             THEN [route |-> "command", guard |-> idle,
                   out |-> handleCommand(messageText, userId, active)]
             ELSE [route |-> "ignored", guard |-> idle, out |-> quiet]
        ELSE IF isCommand(messageText)
        THEN [route |-> "command", guard |-> idle,
              out |-> handleCommand(messageText, userId, active)]
        ELSE IF ~active
        THEN [route |-> "inactive", guard |-> idle, out |-> quiet]
        ELSE LET guardResult == checkMessage(ua, bu, sp, userId, body, FALSE, t)
             IN  [route |-> "guard", guard |-> guardResult,
                  out |-> IF ~guardResult.res.allowed
                          THEN Outcome(IF guardResult.res.shouldRespond
                                       THEN guardResult.res.response
                                       ELSE "none", FALSE, FALSE, FALSE)
                          ELSE Outcome("ai", FALSE, FALSE, TRUE)]

NoAppStep ==
    [op |-> "init", user |-> "none", fromMe |-> FALSE, owner |-> FALSE,
     command |-> "none", route |-> "none", guardConsulted |-> FALSE,
     admitted |-> FALSE, aiCalled |-> FALSE, counted |-> FALSE,
     reply |-> "none", stateBefore |-> DefaultState, countBefore |-> 0]

----------------------------------------------------------------------------
\* Bot and MessageHandler: operations

InitBot ==
    /\ messageHandlers = "none"
    /\ totalMessages = 0
    /\ stopTimers = 0
    /\ alast = NoAppStep

\* Bot.start() after Bot.initialize(): setupWhatsAppEventHandlers()
\* registers the message listener
Start ==
    /\ messageHandlers = "none"
    /\ isInitialized
    /\ messageHandlers' = "registered"
    /\ alast' = [NoAppStep EXCEPT !.op = "start"]
    /\ UNCHANGED <<totalMessages, stopTimers>>
    /\ UNCHANGED <<guardVars, sessVars, stateVars>>

\* the message listener: Bot.handleIncomingMessage(message) for a text
\* message of a direct chat, which counts the message and then runs
\* MessageHandler.handleMessage, in a deployment without a database
HandleIncomingMessage(userId, body, fromMe) ==
    /\ messageHandlers = "registered"
    /\ ~hasPool
    /\ totalMessages < MaxMessages
    /\ \E h \in {handleMessage(userId, body, fromMe, IsActive(state),
                                userActivity, blockedUsers,
                                suspiciousPatterns, now)} :
       LET newCount == totalMessages + 1
           patch == TogglePatch(h.out.activate)
           \* incrementMessageCount() saves every 10th count through setState
           saved == h.out.toggles \/ newCount % 10 = 0
           id == FreshId(debounceTimers)
       IN  /\ totalMessages' = newCount
           /\ userActivity' = h.guard.ua
           /\ blockedUsers' = h.guard.bu
           /\ suspiciousPatterns' = h.guard.sp
           /\ state' = IF h.out.toggles THEN Merge(state, patch) ELSE state
           /\ callLog' = IF h.out.toggles
                         THEN Append(callLog, [patch |-> patch, t |-> mclock])
                         ELSE callLog
           /\ mlast' = IF h.out.toggles
                       THEN [NoStateStep EXCEPT !.op = "setState",
                                                !.patch = patch]
                       ELSE mlast
           /\ debounceTimers' =
                  IF saved
                  THEN saveStateDebounced(debounceTimers, saveTimeout, id)
                  ELSE debounceTimers
           /\ saveTimeout' = IF saved THEN id ELSE saveTimeout
           /\ stopTimers' = IF h.out.toggles /\ ~h.out.activate
                            THEN stopTimers + 1 ELSE stopTimers
           /\ alast' = [op |-> "message", user |-> userId, fromMe |-> fromMe,
                        owner |-> MessageHandler_isOwner(LocalPart(userId)),
                        command |-> IF isCommand(Trim(body))
                                    THEN CommandKind(ToLowerCase(
                                             parseCommand(Trim(body))))
                                    ELSE "none",
                        route |-> h.route,
                        guardConsulted |-> (h.route = "guard"),
                        admitted |-> (h.route = "guard" /\ h.guard.res.allowed),
                        aiCalled |-> h.out.ai,
                        counted |-> (newCount # totalMessages),
                        reply |-> h.out.reply,
                        stateBefore |-> state,
                        countBefore |-> totalMessages]
    /\ UNCHANGED <<now, rateLimitEnabled, guardUp, last, winAdmits,
                   prevAdmitted, minuteRejects, mustBlockUntil, sentLog, ops,
                   ticks>>
    /\ UNCHANGED <<isInitialized, autoSaveInterval, hasPool, dbRow, fileData,
                   tmpData, setCalls, saves, mclock, saveCounts, fileIntact,
                   budget>>
    /\ UNCHANGED messageHandlers
    /\ UNCHANGED sessVars

\* the callback of toggleBot's timer: MessageHandler.stopBot() calls
\* Bot.stop(), which removes the listeners, disconnects the session and
\* shuts the components down (Bot.cleanup); a second stop finds them gone
StopBot(emitsClose) ==
    /\ stopTimers > 0
    /\ stopTimers' = stopTimers - 1
    /\ messageHandlers' = "removed"
    /\ alast' = [NoAppStep EXCEPT !.op = "stopBot"]
    /\ IF messageHandlers = "registered"
       THEN \* whatsappClient.disconnect()
            /\ disconnect(emitsClose, TRUE)
            /\ slast' = [NoSessionStep EXCEPT
                            !.op = "disconnect",
                            !.scheduled = (reconnectAttempts' > reconnectAttempts)]
            /\ credsFailed' = credsFailed \ {sock}
            /\ UNCHANGED <<qrRetries, connects, loggedOut, handlesMade, calls>>
            \* botGuard.shutdown()
            /\ guardUp' = FALSE
            /\ userActivity' = EmptyMap
            /\ blockedUsers' = EmptyMap
            /\ suspiciousPatterns' = EmptyMap
            /\ winAdmits' = [u \in Users |-> 0]
            /\ prevAdmitted' = [u \in Users |-> FALSE]
            /\ minuteRejects' = [u \in Users |-> 0]
            /\ mustBlockUntil' = [u \in Users |-> -1]
            /\ last' = [NoLast EXCEPT !.op = "shutdown", !.t = now]
            /\ UNCHANGED <<now, rateLimitEnabled, sentLog, ops, ticks>>
            \* stateManager.shutdown()
            /\ autoSaveInterval' = FALSE
            /\ LET b == saveStateBegin(debounceTimers, "shutdown")
               IN  /\ debounceTimers' = b.timers
                   /\ saves' = b.saves
            /\ saveTimeout' = 0
            /\ dbRow' = IF hasPool THEN Json(WithMetadata(state)) ELSE dbRow
            /\ isInitialized' = FALSE
            /\ saveCounts' = [saveCounts EXCEPT !.shutdown = @ + 1]
            /\ mlast' = [NoStateStep EXCEPT !.op = "shutdown"]
            /\ UNCHANGED <<state, hasPool, fileData, tmpData, setCalls, mclock,
                           callLog, fileIntact, budget>>
       ELSE UNCHANGED <<guardVars, sessVars, stateVars>>
    /\ UNCHANGED totalMessages

\* a message sent to the account after Bot.stop(): no listener is left to
\* receive it
MessageUnheard(userId, body, fromMe) ==
    /\ messageHandlers = "removed"
    /\ alast' = [NoAppStep EXCEPT
                    !.op = "unheard", !.user = userId, !.fromMe = fromMe,
                    !.owner = MessageHandler_isOwner(LocalPart(userId)),
                    !.command = IF isCommand(Trim(body))
                                THEN CommandKind(ToLowerCase(
                                         parseCommand(Trim(body))))
                                ELSE "none",
                    !.stateBefore = state,
                    !.countBefore = totalMessages]
    /\ UNCHANGED <<messageHandlers, totalMessages, stopTimers>>
    /\ UNCHANGED <<guardVars, sessVars, stateVars>>

NextApp ==
    \/ \E dbFails \in BOOLEAN : Initialize(dbFails)
    \/ Start
    \/ \E userId \in Users, body \in AppBodies, fromMe \in BOOLEAN :
           HandleIncomingMessage(userId, body, fromMe)
    \/ \E emitsClose \in BOOLEAN : StopBot(emitsClose)
    \/ \E userId \in Users, body \in AppBodies, fromMe \in BOOLEAN :
           MessageUnheard(userId, body, fromMe)

----------------------------------------------------------------------------
\* Specifications

Init == InitGuard /\ InitSession /\ InitState /\ InitBot

\* a stored environment for the specifications that leave the state
\* manager alone: no database, no state file
NoStores == ~hasPool /\ dbRow = Missing /\ fileData = Missing

InitNoStores == Init /\ NoStores

InitRateLimited == Init /\ rateLimitEnabled = TRUE

SpecGuard == InitNoStores /\ [][NextGuard]_vars

\* config.features.rateLimiting switched off
InitBurst == InitNoStores /\ rateLimitEnabled = FALSE

SpecBurst == InitBurst /\ [][NextBurst]_vars

SpecContent == InitNoStores /\ [][NextContent]_vars

\* config.features.rateLimiting switched on
InitWarned == InitNoStores /\ rateLimitEnabled = TRUE

SpecWarned == InitWarned /\ [][NextWarned]_vars

SpecSession == InitNoStores /\ [][NextSession]_vars

\* the session manager when the event loop runs every setTimeout callback
\* of attemptReconnection once its delay has passed
SpecSessionLive ==
    InitNoStores /\ [][NextSession]_vars
        /\ WF_vars(\E t \in timers : TimerFire(t))

SpecState == InitRateLimited /\ [][NextState]_vars

SpecApp == InitNoStores /\ [][NextApp]_vars

----------------------------------------------------------------------------
\* Properties of the Admission Guard (checked under SpecGuard)

GuardChecked == last.op = "checkMessage"

\* C1: with rate limiting enabled, once maxMessagesPerMinute messages of a
\* non-owner sender have been admitted within the sender's current minute
\* window, the message of that sender that follows the last of these
\* admissions within that window is rejected with reason rate_limit_minute.
C1_MinuteLimitRejects ==
    (/\ GuardChecked
     /\ last.user # OwnerUser
     /\ rateLimitEnabled
     /\ last.followsAdmit
     /\ last.winBefore >= maxMessagesPerMinute)
        => (~last.allowed /\ last.reason = "rate_limit_minute")

C1_Witness ==
    /\ GuardChecked
    /\ last.user = OtherUser
    /\ rateLimitEnabled
    /\ last.followsAdmit
    /\ last.winBefore = maxMessagesPerMinute
    /\ last.reason = "rate_limit_minute"

\* C2: every checkMessage of the owner identity returns allowed=true, and
\* the block map never holds an entry for the owner.
C2_OwnerAlwaysAdmitted ==
    /\ (GuardChecked /\ last.user = OwnerUser) => last.allowed
    /\ OwnerUser \notin DOMAIN blockedUsers

C2_Witness ==
    /\ GuardChecked
    /\ last.user = OwnerUser
    /\ last.allowed
    /\ rateLimitEnabled
    /\ userActivity[OwnerUser].minuteCount > maxMessagesPerMinute
    /\ userActivity[OwnerUser].lastMessageTime - StartTime < MinuteMs

\* C3: during the 10 minutes that follow a sender's third minute-limit
\* rejection, every checkMessage of that sender is rejected with reason
\* user_blocked, unless unblockUser was called for the sender.
C3_BlockedAfterThirdWarning ==
    (GuardChecked /\ last.blockDue)
        => (~last.allowed /\ last.reason = "user_blocked")

C3_Witness ==
    /\ GuardChecked
    /\ last.blockDue
    /\ last.reason = "user_blocked"
    /\ minuteRejects[last.user] = WarningLimit

C5_ExpiredSenderAdmitted ==
    (GuardChecked /\ last.preExpired)
        => (last.allowed /\ last.user \notin DOMAIN blockedUsers)

\* C5 (amended): the next checkMessage of a sender whose block entry has
\* expired is not rejected as blocked, removes the expired entry during the
\* lookup (an entry present afterwards was created by this call), and admits
\* the message exactly when no later check rejects it.
C5_ExpiredBlockRemoved ==
    (GuardChecked /\ last.preExpired)
        => /\ last.reason # "user_blocked"
           /\ \/ last.user \notin DOMAIN blockedUsers
              \/ blockedUsers[last.user].blockedAt = last.t
           /\ last.allowed <=> last.reason = "none"

C5_Witness ==
    /\ GuardChecked
    /\ last.preExpired
    /\ last.allowed
    /\ last.user \notin DOMAIN blockedUsers

----------------------------------------------------------------------------
\* Properties of the Session Manager (checked under SpecSession)

\* connect attempts in flight: suspended connect() calls and handles that
\* have not reported open yet
AttemptsInFlight == Cardinality(connects) + Cardinality(liveSocks \ openSocks)

\* C6: at most one connect attempt is in flight and at most one transport
\* handle is live at any time, and connect() called while the session is
\* Connecting or Connected is a no-op.
C6_SingleAttemptSingleHandle ==
    /\ AttemptsInFlight <= 1
    /\ Cardinality(liveSocks) <= 1
    /\ (slast.op = "connect" /\ slast.busyBefore) => slast.noop

\* C7: a close event with the logged-out reason schedules no reconnect and
\* leaves the session neither connected nor connecting, and from then on no
\* connect() is started by a reconnect timer.
C7_LoggedOutIsTerminal ==
    /\ (slast.op = "close" /\ slast.reason = "loggedOut")
           => (~slast.scheduled /\ ~isConnected /\ ~isConnecting)
    /\ (loggedOut /\ slast.op = "timer") => ~slast.started

\* the k-th back-off delay, obtained by doubling
RECURSIVE Doubled(_)
Doubled(k) == IF k <= 1 THEN reconnectIntervalMs ELSE 2 * Doubled(k - 1)

\* C8: the k-th reconnect delay scheduled since the last open event is
\* min(reconnectIntervalMs * 2^(k-1), cap), and each delay is strictly
\* greater than the previous one until the cap is reached.
C8_BackoffDelays ==
    \A k \in 1..Len(delays) :
        /\ delays[k] = MinOf(Doubled(k), MaxDelayMs)
        /\ (k > 1 /\ delays[k - 1] < MaxDelayMs) => delays[k] > delays[k - 1]

C8_Witness ==
    /\ slast.op = "close"
    /\ slast.scheduled
    /\ Len(delays) = maxReconnectAttempts
    /\ delays[3] < MaxDelayMs
    /\ delays[4] = MaxDelayMs

\* C9: at most one reconnect timer is outstanding at any time.
C9_SingleTimer == Cardinality(timers) <= 1

\* C10: a reconnect timer that was pending when the application called
\* disconnect() starts no connect() when it fires.
C10_StaleTimerInert ==
    ~(slast.op = "timer" /\ slast.stale /\ slast.started)

\* C11: disconnect() is idempotent and caller-initiated: after a call, the
\* first or a repeated one, the session is Disconnected with no transport
\* handle, and the call has scheduled no reconnect, the close event that the
\* transport emits for the handle it closes included.
C11_DisconnectSchedulesNothing ==
    slast.op = "disconnect"
        => (/\ sock = 0
            /\ ~isConnected
            /\ ~isConnecting
            /\ ~slast.scheduled)

\* C12: when the challenge-attempt counter exceeds qrMaxRetries the session
\* is forcibly disconnected and the failure is fatal: no reconnect attempt
\* is scheduled by it.
C12_QRExhaustionIsFatal ==
    (slast.op = "qr" /\ ~slast.noop)
        => (/\ sock = 0
            /\ ~isConnected
            /\ ~isConnecting
            /\ ~slast.scheduled)

\* C13: when connect() fails while establishing the transport, the
\* connecting flag is false and the session is not Connected when the error
\* reaches the caller.
C13_FailedConnectLeavesDisconnected ==
    slast.op = "connectFailed" => (~isConnecting /\ ~isConnected)

\* C14: a failure of the credential save triggered by a credential-update
\* event changes no connection state: a Connected session stays Connected,
\* and an open event that arrives later still makes the session Connected.
C14_CredsFailureKeepsState ==
    /\ (slast.op = "credsUpdate" /\ ~slast.saved)
           => (/\ isConnected = slast.connectedBefore
               /\ isConnecting = slast.connectingBefore)
    /\ slast.op = "open" => (isConnected /\ ~isConnecting)

C14_Witness ==
    /\ slast.op = "credsUpdate"
    /\ ~slast.saved
    /\ isConnected
    /\ \E h \in openSocks : h \in credsFailed /\ h = sock

----------------------------------------------------------------------------
\* Properties of the Bot State Store (checked under SpecState)

\* nothing of the state manager is in flight
Settled == debounceTimers = {} /\ setCalls = {} /\ saves = {}

\* the instance has seen setState({isActive:false}) and then, within the
\* debounce window, setState({isActive:true}), and no other cause of a
\* fallback write
TwoCallsInWindow ==
    /\ isInitialized
    /\ Len(callLog) = 2
    /\ callLog[1].patch = PatchOff
    /\ callLog[2].patch = PatchOn
    /\ callLog[2].t - callLog[1].t < DebounceMs
    /\ saveCounts.auto = 0
    /\ saveCounts.shutdown = 0

\* C15: setState({isActive:false}) immediately followed by
\* setState({isActive:true}) within the debounce window causes exactly one
\* write to the fallback store, and that write holds isActive = true.
C15_OneDebouncedWrite ==
    TwoCallsInWindow
        => /\ saveCounts.debounce <= 1
           /\ (Settled /\ mlast.op = "saved")
                  => (/\ saveCounts.debounce = 1
                      /\ fileData.kind = "json"
                      /\ fileData.obj["isActive"] = Bool("true"))

\* C16: a state written to the fallback store and loaded by a fresh
\* instance is equal to the written one on every field of the default
\* schema; a damaged or missing field is replaced by its default.
C16_RoundTrip ==
    (/\ mlast.op = "initialize"
     /\ mlast.source = "fallback"
     /\ fileData.kind = "json")
        => \A k \in Keys :
              IF fileIntact
              THEN state[k] = fileData.obj[k]
              ELSE \/ k \in DOMAIN fileData.obj /\ state[k] = fileData.obj[k]
                   \/ state[k] = DefaultState[k]

\* C17: a failure of the primary or of the fallback store during setState
\* is never raised to the caller of setState, and the state in memory keeps
\* the merged value.
C17_SetStateNeverRaises ==
    mlast.op = "setState"
        => (/\ ~mlast.raised
            /\ \A k \in DOMAIN mlast.patch : state[k] = mlast.patch[k])

\* the defaults are in one of the stores
DefaultsPersisted ==
    \/ fileData.kind = "json" /\ FieldsOf(fileData.obj) = DefaultState
    \/ dbRow.kind = "json" /\ FieldsOf(dbRow.obj) = DefaultState

\* C18: initialize() reads the primary store first; when that read fails it
\* reads the fallback store; when neither store yields valid data the state
\* in memory is the defaults and the defaults are persisted immediately.
C18_InitializeFallsBack ==
    mlast.op = "initialize"
        => (/\ mlast.primaryFailed => mlast.readFallback
            /\ (mlast.readFallback /\ ~mlast.fallbackValid)
                   => (state = DefaultState /\ DefaultsPersisted))

\* C19: under every interleaving of the fallback writes a reader of the
\* state file never sees a truncated or partially written file.
C19_FileNeverPartial ==
    fileData.kind # "partial"

----------------------------------------------------------------------------
\* Guard evaluation errors (checked under SpecGuard)

\* C20: when a step of checkMessage raises an unexpected exception,
\* checkMessage fails open: it returns allowed = true with reason
\* guard_error, it neither rejects the message nor throws to its caller, and
\* it leaves the guard's records as they were.
C20_GuardFailsOpen ==
    (last.op = "checkMessage" /\ last.threw)
        => (/\ last.allowed
            /\ last.reason = "guard_error"
            /\ ~last.shouldRespond
            /\ last.returned)

C20_Witness ==
    /\ last.op = "checkMessage"
    /\ last.threw
    /\ last.allowed
    /\ blockedUsers # EmptyMap

\* the identities of a set of pending timers
TimerIds(ts) == {t.id : t \in ts}

\* C24: reconnectAttempts never exceeds maxReconnectAttempts, and once it has
\* reached maxReconnectAttempts no step schedules a reconnect timer and the
\* session is not Connected until an open event has reset it to 0.
C24_RetryCap ==
    [][/\ reconnectAttempts' <= maxReconnectAttempts
       /\ (reconnectAttempts >= maxReconnectAttempts)
              => /\ TimerIds(timers') \subseteq TimerIds(timers)
                 /\ (isConnected' => reconnectAttempts' = 0)]_vars

\* the callback of the last timer failed to connect and attemptReconnection
\* gave up
C24_Witness ==
    /\ reconnectAttempts = maxReconnectAttempts
    /\ slast.op = "connectFailed"
    /\ slast.byTimer
    /\ ~slast.scheduled
    /\ timers = {}

\* C25: (checked under SpecSessionLive) after a recoverable close event
\* handled with reconnectAttempts below maxReconnectAttempts, every pending
\* reconnect timer eventually fires and invokes connect(); and whenever the
\* transport reports open, the session is Connected with reconnectAttempts = 0.
C25_ReconnectEventually ==
    /\ \A i \in 1..(MaxHandles + MaxCalls) :
           (slast.op = "close" /\ slast.scheduled /\ i \in TimerIds(timers))
               ~> (slast.op = "timer" /\ i \notin TimerIds(timers))
    /\ [](slast.op = "open" =>
             (isConnected /\ ~isConnecting /\ reconnectAttempts = 0))

\* the timer scheduled after a recoverable close has fired, its connect()
\* has opened a handle, and the transport has reported that handle open
C25_Witness ==
    /\ slast.op = "open"
    /\ isConnected
    /\ reconnectAttempts = 0
    /\ sock \in openSocks
    /\ handlesMade >= 2
    /\ calls <= 1
    /\ timers = {}

----------------------------------------------------------------------------
\* Properties of the application layer (checked under SpecApp)

\* C21: for every inbound message the guard's decision comes before the AI
\* call and before the increment of totalMessages: a message the guard has
\* not admitted causes no AI call and no increment of the counter.
C21_GuardBeforeAIAndCount ==
    (alast.op = "message" /\ ~(alast.guardConsulted /\ alast.admitted))
        => (~alast.aiCalled /\ ~alast.counted)

C23_OnAfterOffProcessed ==
    (/\ alast.op \in {"message", "unheard"}
     /\ alast.user = OwnerUser
     /\ alast.command = "on"
     /\ ~IsActive(alast.stateBefore))
        => (alast.op = "message" /\ IsActive(state))

----------------------------------------------------------------------------
\* Further properties of the Admission Guard (checked under SpecGuard)

\* a step in which checkMessage ran to its return
GuardStep == last'.op = "checkMessage" /\ ~last'.threw /\ ops' = ops + 1

\* the text submitted in the step
SubmittedBody == sentLog'[last'.user][Len(sentLog'[last'.user])].text

\* updateUserActivity did not run for the sender in the step
NotCounted(u) ==
    IF u \in DOMAIN userActivity
    THEN /\ u \in DOMAIN userActivity'
         /\ userActivity'[u].lastMessageTime = userActivity[u].lastMessageTime
         /\ userActivity'[u].hourCount <= userActivity[u].hourCount
    ELSE u \notin DOMAIN userActivity'

\* the sender's recorded violations are as before the step
SameViolations(u) ==
    IF u \in DOMAIN suspiciousPatterns
    THEN /\ u \in DOMAIN suspiciousPatterns'
         /\ suspiciousPatterns'[u].violations = suspiciousPatterns[u].violations
    ELSE u \notin DOMAIN suspiciousPatterns'

\* C26: checkMessage applies its checks in the order owner bypass, block,
\* rate limit, suspicious pattern, content heuristics and stops at the first
\* rejection: the reason returned is that of the first check that fails on
\* the state before the call, and no later check updates its records.
C26_OrderedChecks ==
    [][GuardStep =>
        LET u == last'.user
            owner == u = OwnerUser
            blocked == /\ u \in DOMAIN blockedUsers
                       /\ now <= blockedUsers[u].blockedUntil
            known == u \in DOMAIN userActivity
            minuteFull == /\ known
                          /\ now <= userActivity[u].minuteReset
                          /\ userActivity[u].minuteCount >= maxMessagesPerMinute
            hourFull == /\ known
                        /\ now <= userActivity[u].hourReset
                        /\ userActivity[u].hourCount >= maxMessagesPerHour
            rateFails == rateLimitEnabled /\ (minuteFull \/ hourFull)
            repeats == last'.preIdentical >= 2
            isSpam == SubmittedBody = TextSpam
        IN  IF owner
            THEN /\ last'.reason = "owner_bypass"
                 /\ blockedUsers' = blockedUsers
                 /\ suspiciousPatterns' = suspiciousPatterns
            ELSE IF blocked
            THEN /\ last'.reason = "user_blocked"
                 /\ userActivity' = userActivity
                 /\ suspiciousPatterns' = suspiciousPatterns
            ELSE IF rateFails
            THEN /\ last'.reason = IF minuteFull THEN "rate_limit_minute"
                                   ELSE "rate_limit_hour"
                 /\ suspiciousPatterns' = suspiciousPatterns
                 /\ NotCounted(u)
            ELSE IF repeats
            THEN /\ last'.reason = "repeated_messages"
                 /\ NotCounted(u)
                 /\ SameViolations(u)
            ELSE IF isSpam
            THEN /\ last'.reason = "spam_content"
                 /\ NotCounted(u)
            ELSE /\ last'.allowed
                 /\ userActivity'[u].lastMessageTime = now]_vars

\* a third identical message whose text the content check would reject as
\* well was rejected by the pattern check
C26_Witness ==
    /\ last.op = "checkMessage"
    /\ last.user = OtherUser
    /\ sentLog[OtherUser][Len(sentLog[OtherUser])].text = TextSpam
    /\ last.preIdentical >= 2
    /\ last.reason = "repeated_messages"

\* C27: while a sender has an unexpired block entry, every checkMessage for
\* that sender is rejected without a reply and leaves the sender's activity
\* record, pattern history and block entry as they were.
C27_BlockedIsSilentAndInert ==
    [][(/\ GuardStep
        /\ last'.user \in DOMAIN blockedUsers
        /\ now <= blockedUsers[last'.user].blockedUntil)
          => /\ ~last'.allowed
             /\ last'.reason = "user_blocked"
             /\ ~last'.shouldRespond
             /\ userActivity' = userActivity
             /\ suspiciousPatterns' = suspiciousPatterns
             /\ blockedUsers' = blockedUsers]_vars

\* a blocked sender has submitted a message before the block ran out
C27_Witness ==
    /\ last.op = "checkMessage"
    /\ last.reason = "user_blocked"
    /\ last.user \in DOMAIN blockedUsers
    /\ last.t <= blockedUsers[last.user].blockedUntil
    /\ last.user \in DOMAIN userActivity

\* C28: when rate limiting is on and a sender who is neither the owner nor
\* blocked has reached maxMessagesPerHour in the current hour window while
\* the minute limit is not reached, the next message is rejected with
\* rate_limit_hour and that rejection itself creates a 1-hour block entry,
\* whatever the sender's warning count.
C28_HourLimitBlocksAtOnce ==
    [][LET u == last'.user
           known == u \in DOMAIN userActivity
           blocked == /\ u \in DOMAIN blockedUsers
                      /\ now <= blockedUsers[u].blockedUntil
           minuteFull == /\ now <= userActivity[u].minuteReset
                         /\ userActivity[u].minuteCount >= maxMessagesPerMinute
           hourFull == /\ now <= userActivity[u].hourReset
                       /\ userActivity[u].hourCount >= maxMessagesPerHour
       IN  (/\ GuardStep /\ rateLimitEnabled /\ u # OwnerUser /\ ~blocked
            /\ known /\ hourFull /\ ~minuteFull)
              => /\ ~last'.allowed
                 /\ last'.reason = "rate_limit_hour"
                 /\ last'.shouldRespond
                 /\ u \in DOMAIN blockedUsers'
                 /\ blockedUsers'[u].blockedUntil = now + HourBlockMs
                 /\ userActivity'[u].warningCount = userActivity[u].warningCount
      ]_vars

\* a sender without any warning has been rejected for the hour limit and
\* is blocked for the hour that follows
C28_Witness ==
    /\ last.op = "checkMessage"
    /\ last.reason = "rate_limit_hour"
    /\ last.user \in DOMAIN blockedUsers
    /\ blockedUsers[last.user].blockedUntil = last.t + HourBlockMs
    /\ userActivity[last.user].warningCount = 0

----------------------------------------------------------------------------
\* Properties of a burst of one sender (checked under SpecBurst)

\* the gaps before the last n messages the sender submitted
LastGaps(u, n) ==
    LET log == sentLog[u]
    IN  [i \in 1..n |-> log[Len(log) - n + i].timestamp
                           - log[Len(log) - n + i - 1].timestamp]

\* C30: a message is rejected with rapid_messaging, and its sender blocked
\* for 15 minutes, only when it and the five messages before it were sent
\* with each of the 5 gaps between them under 2 seconds.
C30_RapidOnlyAfterFiveConsecutive ==
    (last.op = "checkMessage" /\ last.reason = "rapid_messaging")
        => /\ Len(sentLog[last.user]) >= SpamCountLimit + 1
           /\ \A i \in 1..SpamCountLimit :
                  LastGaps(last.user, SpamCountLimit)[i] < RapidGapMs

----------------------------------------------------------------------------
\* Further properties of the Admission Guard (checked under SpecGuard)

\* C31: every rejection for a repeated text raises the sender's repeatCount
\* by one; while repeatCount is below 3 after the rejection the sender has
\* no block entry, and from 3 on the rejection creates a 30-minute block.
C31_DuplicateStreakEscalates ==
    [][LET u == last'.user
       IN  (GuardStep /\ last'.reason = "repeated_messages")
              => /\ ~last'.allowed
                 /\ u \in DOMAIN suspiciousPatterns
                 /\ suspiciousPatterns'[u].repeatCount
                        = suspiciousPatterns[u].repeatCount + 1
                 /\ IF suspiciousPatterns'[u].repeatCount >= RepeatLimit
                    THEN /\ u \in DOMAIN blockedUsers'
                         /\ blockedUsers'[u].blockedUntil = now + RepeatBlockMs
                         /\ blockedUsers'[u].reason
                                = "repeated_identical_messages"
                    ELSE u \notin DOMAIN blockedUsers'
      ]_vars

\* the third rejection of a repeated text has blocked its sender
C31_Witness ==
    /\ last.op = "checkMessage"
    /\ last.reason = "repeated_messages"
    /\ suspiciousPatterns[last.user].repeatCount = RepeatLimit
    /\ last.user \in DOMAIN blockedUsers
    /\ blockedUsers[last.user].blockedUntil = last.t + RepeatBlockMs

\* the entry of a sender in a map, if any
EntryOf(map, v) == IF v \in DOMAIN map THEN <<map[v]>> ELSE <<>>

\* C34: a checkMessage for one sender leaves the activity record, the
\* pattern history and the block entry of every other sender as they were
\* (each call runs from its first read to its last write in one step, as
\* checkMessage holds no await).
C34_SendersIsolated ==
    [][GuardStep =>
          \A v \in Users \ {last'.user} :
              /\ EntryOf(userActivity', v) = EntryOf(userActivity, v)
              /\ EntryOf(suspiciousPatterns', v)
                     = EntryOf(suspiciousPatterns, v)
              /\ EntryOf(blockedUsers', v) = EntryOf(blockedUsers, v)
      ]_vars

\* a message of the owner has been checked while the other sender holds an
\* activity record, a pattern history and a block entry
C34_Witness ==
    /\ last.op = "checkMessage"
    /\ last.user = OwnerUser
    /\ OtherUser \in DOMAIN userActivity
    /\ OtherUser \in DOMAIN suspiciousPatterns
    /\ OtherUser \in DOMAIN blockedUsers
    /\ OwnerUser \in DOMAIN userActivity

\* C38: with rate limiting enabled, the minute counter of every sender
\* other than the owner is at most maxMessagesPerMinute and the hour
\* counter at most maxMessagesPerHour, after any sequence of calls.
C38_CountersWithinLimits ==
    rateLimitEnabled
        => \A u \in (DOMAIN userActivity) \ {OwnerUser} :
               /\ userActivity[u].minuteCount <= maxMessagesPerMinute
               /\ userActivity[u].hourCount <= maxMessagesPerHour

\* a sender with both counters at their limits has just been rejected
C38_Witness ==
    /\ rateLimitEnabled
    /\ last.op = "checkMessage"
    /\ last.user # OwnerUser
    /\ ~last.allowed
    /\ last.user \in DOMAIN userActivity
    /\ userActivity[last.user].minuteCount = maxMessagesPerMinute
    /\ userActivity[last.user].hourCount = maxMessagesPerHour

\* C39: a block entry that is unexpired stays as it is, with the same
\* blockedUntil and reason, through every checkMessage and every cleanup;
\* only unblockUser for its sender or shutdown removes it.
C39_UnexpiredBlockKept ==
    [][\A u \in DOMAIN blockedUsers :
          now' <= blockedUsers[u].blockedUntil
              => \/ /\ u \in DOMAIN blockedUsers'
                    /\ blockedUsers'[u] = blockedUsers[u]
                 \/ /\ last'.op = "unblockUser"
                    /\ last'.user = u
                    /\ ops' = ops + 1
                 \/ /\ last'.op = "shutdown"
                    /\ ~guardUp'
      ]_vars

\* a blocked sender's message has been rejected and the entry made by an
\* earlier call is still in place
C39_Witness ==
    /\ last.op = "checkMessage"
    /\ last.reason = "user_blocked"
    /\ last.user \in DOMAIN blockedUsers
    /\ blockedUsers[last.user].blockedAt < last.t
    /\ last.t <= blockedUsers[last.user].blockedUntil

----------------------------------------------------------------------------
\* Properties of a sender who keeps running into the minute limit (checked
\* under SpecWarned)

\* C36: as long as a sender's activity record exists its warningCount never
\* goes down, whatever window is reset, whatever block expires or is
\* lifted; so once the sender has had three minute-limit rejections (and
\* with them the first rate-limit block), every later minute-limit
\* rejection creates a new 10-minute block at once.
C36_WarningsNeverForgotten ==
    [][/\ \A u \in (DOMAIN userActivity) \cap (DOMAIN userActivity') :
              userActivity'[u].warningCount >= userActivity[u].warningCount
       /\ LET u == last'.user
          IN  (/\ GuardStep
               /\ last'.reason = "rate_limit_minute"
               /\ minuteRejects[u] >= WarningLimit)
                 => /\ u \in DOMAIN blockedUsers'
                    /\ blockedUsers'[u].blockedUntil = last'.t + RateBlockMs
                    /\ blockedUsers'[u].reason
                           = "repeated_rate_limit_violations"
      ]_vars

\* a fourth minute-limit rejection, after the first block is over, has
\* blocked the sender again
C36_Witness ==
    /\ last.op = "checkMessage"
    /\ last.reason = "rate_limit_minute"
    /\ minuteRejects[last.user] = WarningLimit + 1
    /\ userActivity[last.user].warningCount = WarningLimit + 1
    /\ last.user \in DOMAIN blockedUsers
    /\ blockedUsers[last.user].blockedUntil = last.t + RateBlockMs

----------------------------------------------------------------------------
\* Properties of the content heuristics (checked under SpecContent)

ContentRejected == last'.reason \in {"spam_content", "message_too_long"}

\* the violation log of a sender in a map of pattern records
ViolationsOf(sp, u) == IF u \in DOMAIN sp THEN sp[u].violations ELSE <<>>

\* C32: every rejection by the content heuristics leaves the sender's
\* violation log as it was without the entries of 24 hours or more ago and
\* with one new entry of now appended; that rejection creates a 24-hour
\* block exactly when the log then holds 5 or more entries; a checkMessage
\* that is not such a rejection leaves the log as it was.
C32_ViolationLog ==
    [][LET u == last'.user
           t == last'.t
           before == ViolationsOf(suspiciousPatterns, u)
           after == ViolationsOf(suspiciousPatterns', u)
           fresh == SelectSeq(before, LAMBDA v : t - v.timestamp < DayMs)
           dayBlock == /\ u \in DOMAIN blockedUsers'
                       /\ blockedUsers'[u].reason = "repeated_violations"
                       /\ blockedUsers'[u].blockedUntil = t + ViolationBlockMs
       IN  GuardStep =>
              IF ContentRejected
              THEN /\ Len(after) = Len(fresh) + 1
                   /\ SubSeq(after, 1, Len(fresh)) = fresh
                   /\ after[Len(after)].timestamp = t
                   /\ IF Len(after) >= ViolationLimit
                      THEN dayBlock
                      ELSE u \notin DOMAIN blockedUsers'
              ELSE after = before
      ]_vars

\* the fifth violation within 24 hours has blocked the sender for 24 hours
C32_Witness ==
    /\ last.op = "checkMessage"
    /\ last.reason = "spam_content"
    /\ Len(suspiciousPatterns[last.user].violations) = ViolationLimit
    /\ last.user \in DOMAIN blockedUsers
    /\ blockedUsers[last.user].blockedUntil = last.t + ViolationBlockMs

\* C33: every rejection by the content heuristics of a message in a group
\* carries no reply, and every such rejection of a message in a direct chat
\* carries one.
C33_GroupRejectionsSilent ==
    (last.op = "checkMessage"
        /\ last.reason \in {"spam_content", "message_too_long"})
        => /\ ~last.allowed
           /\ last.isGroup => ~last.shouldRespond
           /\ ~last.isGroup => (last.shouldRespond /\ last.response # "none")

----------------------------------------------------------------------------
\* Further properties of the Bot State (checked under SpecState)

\* a call of setState has just ended, by its return or by a throw
SetStateEnded ==
    \/ mlast.op = "setState" /\ (mlast.raised \/ ~hasPool)
    \/ mlast.op = "setStateReturn"

\* C35: every setState, whether or not the primary store is available,
\* has scheduled a debounced write to the fallback store by the time it
\* ends: the timer of saveTimeout is pending and due one debounce delay
\* from now.
C35_EverySetStateSchedules ==
    SetStateEnded
        => \E t \in debounceTimers :
               t.id = saveTimeout /\ t.due = mclock + DebounceMs

----------------------------------------------------------------------------
\* Further properties of the Session Manager (checked under SpecSession)

\* C37: in every reachable state, under any interleaving of connect(),
\* disconnect(), open events and close events, isConnected and
\* isConnecting are not both true.
C37_FlagsExclusive == ~(isConnected /\ isConnecting)

\* connect() was called on a connected session and started nothing
C37_Witness ==
    /\ slast.op = "connect"
    /\ slast.noop
    /\ isConnected
    /\ ~isConnecting

\* C40: when disconnect() has been called while a connect() was suspended
\* before makeWASocket, that connect() creates no transport handle: the
\* step after the disconnect() is never the creation of a handle, and the
\* flags stay down as long as connect() is not called again.
C40_DisconnectCancelsConnect ==
    [][(slast.op = "disconnect" /\ connects # {})
          => /\ slast'.op # "socket"
             /\ slast'.op \notin {"connect", "timer"}
                    => (~isConnected' /\ ~isConnecting')
      ]_vars

====
